---- MODULE Spec2Model ----
(***************************************************************************)
(* FlightOverhead: flight detection, notification throttling and the TTL   *)
(* cache, modelled at the granularity of the awaits of the TypeScript code.*)
(*                                                                         *)
(* Units.  Time is counted in steps of 30 seconds, altitude in steps of    *)
(* 10,000 ft.  Date.now() is never kept as an absolute value in the        *)
(* model: only differences of times are read by the code, so the           *)
(* model keeps ages and remaining times, which saturate once they are past  *)
(* every threshold they are compared with, and needs no bound on the clock.*)
(* A cache entry carries the age Date.now() - timestamp of its write.      *)
(***************************************************************************)
EXTENDS Integers, Sequences, FiniteSets, TLC

\* ---------------------------------------------------------------- bounds
NumFlights == 3
NumOverlapFlights == 1
NumBatchFlights == 4
MaxExpiry == 1
MaxLat == 3
MaxAircraft == 2
NumLocations == 2
NumWatchIds == 3
MaxCallbacks == 3
MaxConfigures == 3
MaxParams == 2
MaxTextLen == 1

\* ------------------------------------------------------ program constants
\* throttleIntervalMs = 30 * 1000
ThrottleInterval == 1
\* maxNotificationsPerBatch = 3
MaxNotificationsPerBatch == 3
\* durationMs = 60 * 1000
BaseDuration == 2
\* Math.min(3, flight.altitude / 10000)
AltitudeFactorCap == 3
\* durationMs += altitudeFactor * 30 * 1000
DurationPerFactor == 1
\* NEARBY_AIRCRAFT_CACHE_EXPIRY_MS = 60 * 1000
NearbyAircraftCacheExpiry == 2
\* DEFAULT_DETECTION_RADIUS_KM = 5.0
DefaultDetectionRadiusKm == 5
\* MIN_REQUEST_INTERVAL_MS = 10000 (in units of 5 s)
MinRequestInterval == 2

FlightIds == 1..NumFlights
\* the callers whose async calls can be in flight together: the background
\* task and the foreground UI
Procs == {"bg", "ui"}
\* the altitude an aircraft is reported at (units of 10,000 ft)
AltitudeOf(i) == i - 1
Flights == {[id |-> i, altitude |-> AltitudeOf(i)] : i \in FlightIds}

\* the cache: keys, the values cached and the expiry durations asked for
CacheKeys == {"k1", "k2"}
CacheValues == {"v1", "v2"}
Expiries == 1..MaxExpiry
Null == "null"
\* what the promise of detectOverheadFlights rejected with, if it did
NoError == "none"
FlightDetectionError == "Failed to detect overhead flights"
\* what AsyncStorage holds under a cache key: nothing, or one entry
NoEntry == {}
TheEntry(slot) == CHOOSE e \in slot : TRUE

Min(a, b) == IF a <= b THEN a ELSE b

\* the largest duration calculateNotificationDuration can return
MaxDuration == BaseDuration + AltitudeFactorCap * DurationPerFactor

Ids(fs) == {fs[i].id : i \in 1..Len(fs)}

\* The results a poll can deliver: any set of the aircraft, listed from the
\* highest id down (the order is the API's, not one of altitude).
RECURSIVE PollsFrom(_)
PollsFrom(n) ==
  IF n > NumFlights THEN {<<>>}
  ELSE LET rest == PollsFrom(n + 1)
       IN  rest \cup {Append(s, [id |-> n, altitude |-> AltitudeOf(n)]) : s \in rest}
Polls == PollsFrom(1)

\* The lists one notifyFlightsDetected call can be given: more flights than a
\* batch notifies, listed like a poll.
BatchFlightIds == 1..NumBatchFlights
AllFlightIds == FlightIds \cup BatchFlightIds
RECURSIVE BatchPollsFrom(_)
BatchPollsFrom(n) ==
  IF n > NumBatchFlights THEN {<<>>}
  ELSE LET rest == BatchPollsFrom(n + 1)
       IN  rest \cup {Append(s, [id |-> n, altitude |-> AltitudeOf(n)]) : s \in rest}
BatchPolls == BatchPollsFrom(1)

VARIABLES
  \* FlightDetector
  lastDetectedFlights,
  \* NotificationManager; managerInit is how far initialize() has come and
  \* how it ended
  notificationsEnabled, lastNotificationAge, managerInit,
  \* NotificationService
  sentNotifications, timers,
  \* async calls in flight
  pc, kind, newDetections, flightsToNotify, idx, outcomes, detectError,
  \* history variables, read by the properties only
  prevPollIds, owed, live, hold, postAge, startAge, overlapPost, gate, postedBy

detVars == <<lastDetectedFlights>>
mgrVars == <<notificationsEnabled, lastNotificationAge, managerInit>>
svcVars == <<sentNotifications, timers>>
callVars == <<pc, kind, newDetections, flightsToNotify, idx, outcomes,
              detectError>>
histVars == <<prevPollIds, owed, live, hold, postAge, startAge, overlapPost,
              gate, postedBy>>
pipelineVars == <<detVars, mgrVars, svcVars, callVars, histVars>>

VARIABLES
  \* AsyncStorage: the cache entries by key, and the list under CACHE_KEYS
  store, registry,
  \* cache calls in flight: position, operation, arguments, locals, result
  cpc, cop, ckey, centry, ckeys, cresult, csize,
  \* history variables, read by the properties only
  written, seen, snapshot

cacheVars == <<store, registry, cpc, cop, ckey, centry, ckeys, cresult, csize,
               written, seen, snapshot>>

VARIABLES
  \* FlightApiRepository: the cache entries under the nearby-aircraft keys
  rstore,
  \* getNearbyAircraft calls in flight: position, latitude asked for,
  \* cachedData, the flights returned
  rpc, rlat, rcached, rresult,
  \* history variables, read by the properties only
  rhit, rapi

repoVars == <<rstore, rpc, rlat, rcached, rresult, rhit, rapi>>

VARIABLES
  \* StorageService: what is stored under 'app_settings'
  settings,
  \* SettingsRepository updates in flight: position, operation, argument,
  \* the settings that getSettings read
  spc, sop, sarg, sread,
  \* history variables, read by the properties only: the argument of the
  \* last update of each kind that completed
  lastRadius, lastLocation

settingsVars == <<settings, spc, sop, sarg, sread, lastRadius, lastLocation>>

VARIABLES
  \* LocationManager
  callbacks, isUpdating,
  \* LocationService
  watchId,
  \* Geolocation: the position watches that are active
  watches,
  \* the location each callback received last
  received,
  \* history variables, read by the properties only: the Geolocation calls
  \* of the last operation, the ids it passed to clearWatch, and whether a
  \* Geolocation call has ever thrown
  nativeCalls, clearArg, nativeFailed

locationVars == <<callbacks, isUpdating, watchId, watches, received,
                  nativeCalls, clearArg, nativeFailed>>

VARIABLES
  \* AircraftImageService: memoryCache; the image files in the cache directory
  memoryCache, files,
  \* getImageForAircraftType calls in flight: position, the type asked for,
  \* the part of the chain (the type's own ids or the category default), the
  \* index of the image id, the index of the source, the path returned
  ipc, itype, ipart, iidx, isrc, ipath,
  \* history variables, read by the properties only: the call found the type
  \* in the memory cache; it used the file system; the image ids it gave up
  \* on; the image ids it found missing in the cache directory; the time
  \* since the memory cache entry of a type was written
  ihit, ifs, ifailed, ichecked, cacheAge,
  \* the clearImageCache call in progress: its position and (history) the
  \* files its unlink deleted
  clearCall,
  \* AircraftImageService.isPrefetching; the prefetchImagesForTypes calls in
  \* progress, by caller: position, the types whose image is still being
  \* fetched, how the call ended
  isPrefetching, prefetchCalls

imageCallVars == <<clearCall, isPrefetching, prefetchCalls>>

imageVars == <<memoryCache, files, ipc, itype, ipart, iidx, isrc, ipath,
               ihit, ifs, ifailed, ichecked, cacheAge, imageCallVars>>

VARIABLES
  \* DeepLinkHandler: navigateFunction
  navigateFunction,
  \* the last call of navigateToScreen or handleNotificationAction: what it
  \* was called with, whether a navigation function was registered and
  \* whether that function throws
  navRequest,
  \* what that call did: the configurations handed to navigateToScreen, the
  \* calls of the navigation function, the value returned
  navOutcome

navVars == <<navigateFunction, navRequest, navOutcome>>

VARIABLES
  \* the status the system holds for each permission of the application
  permStatus,
  \* the call of requestBackgroundLocationPermission: its position,
  \* Platform.OS, what the check of the foreground permission gave, the
  \* permissions it requested, the value returned
  permCall

permVars == <<permStatus, permCall>>

VARIABLES
  \* the singletons that have been created
  instances,
  \* BackgroundTaskManager: tasks, initialized; the task ids scheduled with
  \* BackgroundFetch
  tasks, initialized, scheduled,
  \* FlightDetectionManager: detectionActive
  detectionActive,
  \* the call of a start or stop method in progress: the method, its
  \* position, the value returned
  bcall,
  \* history variable: what the last execution of the flight check task ran,
  \* and whether the FlightDetectionManager had been created by then
  lastRun,
  \* the calls of BackgroundTaskManager methods in progress, by caller: the
  \* method, its position, the value returned
  mcalls,
  \* history variable: how often BackgroundFetch.configure was invoked
  configureCount,
  \* the execution of the task callback given to configure: the task id of
  \* the event, its position, how the task ended, who called finish
  frun

taskManagerVars == <<mcalls, configureCount, frun>>

backgroundVars == <<instances, tasks, initialized, scheduled, detectionActive,
                    bcall, lastRun, taskManagerVars>>

VARIABLES
  \* AsyncStorage: the item under the key 'flights', if any (the JSON text of
  \* an array of flights parses back to that array)
  flightStore,
  \* the FlightRepository call in progress: the method, its position, the
  \* flights given or returned
  hcall,
  \* history variable: the flights that performDetection calls have saved
  \* since the history was last deleted
  savedFlights

historyVars == <<flightStore, hcall, savedFlights>>

VARIABLES
  \* FlightApiService: the time since lastRequestTime (saturating at
  \* MinRequestInterval); the calls in flight, each with its position, its
  \* method, how long the interceptor's timer still has to run and how the
  \* call ended
  lastRequestAge, apiCalls,
  \* history: the time since a request last left for the API (saturating)
  sentAge

apiVars == <<lastRequestAge, apiCalls, sentAge>>

VARIABLES
  \* FlightDetectionManager.notificationManager is set
  notificationManagerSet,
  \* the performDetection call in progress: its position, the location and
  \* the flights it got, the step that failed, how its promise settled and
  \* the value it resolved to
  pdCall

performVars == <<notificationManagerSet, pdCall>>

\* what the actions of each component leave alone
nonPipelineVars == <<cacheVars, repoVars, settingsVars, locationVars,
                     imageVars, navVars, permVars, backgroundVars,
                     historyVars, apiVars, performVars>>
nonCacheVars == <<pipelineVars, repoVars, settingsVars, locationVars,
                  imageVars, navVars, permVars, backgroundVars,
                  historyVars, apiVars, performVars>>
nonRepoVars == <<pipelineVars, cacheVars, settingsVars, locationVars,
                 imageVars, navVars, permVars, backgroundVars, historyVars,
                 apiVars, performVars>>
nonSettingsVars == <<pipelineVars, cacheVars, repoVars, locationVars,
                     imageVars, navVars, permVars, backgroundVars,
                     historyVars, apiVars, performVars>>
nonLocationVars == <<pipelineVars, cacheVars, repoVars, settingsVars,
                     imageVars, navVars, permVars, backgroundVars,
                     historyVars, apiVars, performVars>>
nonImageVars == <<pipelineVars, cacheVars, repoVars, settingsVars,
                  locationVars, navVars, permVars, backgroundVars,
                  historyVars, apiVars, performVars>>
nonNavVars == <<pipelineVars, cacheVars, repoVars, settingsVars,
                locationVars, imageVars, permVars, backgroundVars,
                historyVars, apiVars, performVars>>
nonPermVars == <<pipelineVars, cacheVars, repoVars, settingsVars,
                 locationVars, imageVars, navVars, backgroundVars,
                 historyVars, apiVars, performVars>>
nonBackgroundVars == <<pipelineVars, cacheVars, repoVars, settingsVars,
                       locationVars, imageVars, navVars, permVars,
                       historyVars, apiVars, performVars>>
nonHistoryVars == <<pipelineVars, cacheVars, repoVars, settingsVars,
                    locationVars, imageVars, navVars, permVars,
                    backgroundVars, apiVars, performVars>>
nonApiVars == <<pipelineVars, cacheVars, repoVars, settingsVars,
                locationVars, imageVars, navVars, permVars, backgroundVars,
                historyVars, performVars>>
nonPerformVars == <<pipelineVars, cacheVars, repoVars, settingsVars,
                    locationVars, imageVars, navVars, permVars,
                    backgroundVars, historyVars, apiVars>>

vars == <<pipelineVars, cacheVars, repoVars, settingsVars, locationVars,
          imageVars, navVars, permVars, backgroundVars, historyVars,
          apiVars, performVars>>

\* ------------------------------------------------------- pure functions

\* a faulty variant: every flight of the poll counts as new
identifyNewFlightsUnfiltered(currentFlights, last) == currentFlights

\* FlightDetector.identifyNewFlights
identifyNewFlights(currentFlights, last) ==
  IF Len(last) = 0 THEN currentFlights
  ELSE LET previousIds == Ids(last)
       IN  SelectSeq(currentFlights, LAMBDA f : f.id \notin previousIds)

\* NotificationService.calculateNotificationDuration
calculateNotificationDuration(flight) ==
  BaseDuration + Min(AltitudeFactorCap, flight.altitude) * DurationPerFactor

\* a faulty variant: the answer to the permission request is not looked at
EnabledRegardless(enabled, permissionsGranted) == enabled

\* initialize(): notificationsEnabled after requestPermissions has settled
EnabledAfterRequest(enabled, permissionsGranted) ==
  IF permissionsGranted THEN enabled ELSE FALSE

\* NotificationManager.shouldSendNotification; age is Date.now() minus
\* lastNotificationTime
shouldSendNotification(age) == age >= ThrottleInterval

\* [...flights].sort((a, b) => a.altitude - b.altitude): a stable sort
RECURSIVE InsertByAltitude(_, _)
InsertByAltitude(sorted, f) ==
  IF sorted = <<>> THEN <<f>>
  ELSE IF Head(sorted).altitude <= f.altitude
       THEN <<Head(sorted)>> \o InsertByAltitude(Tail(sorted), f)
       ELSE <<f>> \o sorted

RECURSIVE SortByAltitude(_)
SortByAltitude(fs) ==
  IF fs = <<>> THEN <<>>
  ELSE InsertByAltitude(SortByAltitude(SubSeq(fs, 1, Len(fs) - 1)), fs[Len(fs)])

\* a faulty variant: the batch is cut without being sorted
SelectWithoutSorting(flights) ==
  SubSeq(flights, 1, Min(Len(flights), MaxNotificationsPerBatch))

\* a faulty variant: the batch is cut to its first flight
SelectFirstFlightOnly(flights) ==
  LET sortedFlights == SortByAltitude(flights)
  IN  SubSeq(sortedFlights, 1, Min(Len(sortedFlights), 1))

\* sortedFlights.slice(0, this.maxNotificationsPerBatch)
SelectFlightsToNotify(flights) ==
  LET sortedFlights == SortByAltitude(flights)
  IN  SubSeq(sortedFlights, 1, Min(Len(sortedFlights), MaxNotificationsPerBatch))

\* notifiedFlights of a batch: showFlightNotification returned (it posted,
\* or it skipped a duplicate); a throw leaves the flight out
NotifiedFlights(p) ==
  LET keep == {i \in 1..Len(outcomes[p]) : outcomes[p][i] # "failed"}
      F[i \in 0..Len(outcomes[p])] ==
        IF i = 0 THEN <<>>
        ELSE IF i \in keep THEN Append(F[i - 1], flightsToNotify[p][i]) ELSE F[i - 1]
  IN  F[Len(outcomes[p])]

\* what notifyFlightDetected resolves to: true when showFlightNotification
\* returned, false when the call was refused at its head or the service threw
NotifyFlightDetectedResult(p) == Len(NotifiedFlights(p)) > 0

\* ------------------------------------------------- FlightApiRepository
\* Positions lie on the meridian of the request, latitudes counted in steps
\* of 0.005 degrees; distances and the radius are counted in the great-circle
\* length of one such step, so the Haversine distance of two points is the
\* difference of their latitudes.
\* the radiusKm asked for
DetectionRadius == 1
Latitudes == 1..MaxLat
Positions == 0..(MaxLat + DetectionRadius)
\* what the API can answer: the positions of up to MaxAircraft aircraft
ApiAnswers == {a \in SUBSET Positions : Cardinality(a) <= MaxAircraft}

\* Math.round(latitude * 100) / 100, in hundredths of a degree
RoundHundredths(lat) == (lat + 1) \div 2

\* `nearby_aircraft_${roundedLat}_${roundedLon}_${radiusKm}`
NearbyCacheKey(lat) == RoundHundredths(lat)
NearbyCacheKeys == {NearbyCacheKey(lat) : lat \in Latitudes}

\* calculateDistance (Haversine) of two points of one meridian
calculateDistance(lat1, lat2) == IF lat1 >= lat2 THEN lat1 - lat2 ELSE lat2 - lat1

\* a faulty variant: nothing is filtered out
filterByRadiusNothing(flights, centerLat, radiusKm) == flights

\* filterByRadius
filterByRadius(flights, centerLat, radiusKm) ==
  {f \in flights : calculateDistance(centerLat, f) <= radiusKm}

RepoInit ==
  /\ rstore = [k \in NearbyCacheKeys |-> NoEntry]
  /\ rpc = [p \in Procs |-> "idle"]
  /\ rlat = [p \in Procs |-> 1]
  /\ rcached = [p \in Procs |-> NoEntry]
  /\ rresult = [p \in Procs |-> {}]
  /\ rhit = [p \in Procs |-> FALSE]
  /\ rapi = [p \in Procs |-> FALSE]

\* ----------------------------------------------------- SettingsRepository
Radii == {DefaultDetectionRadiusKm, 2 * DefaultDetectionRadiusKm}
Locations == 1..NumLocations

\* AppSettings; lastKnownLocation is null (no location) or a location
AppSettings(radiusKm, location) ==
  [detectionRadiusKm |-> radiusKm, lastKnownLocation |-> location]

defaultSettings == AppSettings(DefaultDetectionRadiusKm, {})

\* { ...settings, detectionRadiusKm: radiusKm }
WithDetectionRadius(s, radiusKm) == [s EXCEPT !.detectionRadiusKm = radiusKm]

\* { ...settings, lastKnownLocation: location }
WithLastKnownLocation(s, location) == [s EXCEPT !.lastKnownLocation = {location}]

updatedSettings(op, s, arg) ==
  IF op = "radius" THEN WithDetectionRadius(s, arg) ELSE WithLastKnownLocation(s, arg)

SettingsInit ==
  /\ settings = NoEntry
  /\ spc = [p \in Procs |-> "idle"]
  /\ sop = [p \in Procs |-> "none"]
  /\ sarg = [p \in Procs |-> 0]
  /\ sread = [p \in Procs |-> NoEntry]
  /\ lastRadius = {}
  /\ lastLocation = {}

\* ------------------------------------------- LocationManager, LocationService
LocationCallbacks == {"callback1", "callback2"}
WatchIds == 1..NumWatchIds

\* the service together with Geolocation, as one value
ServiceState ==
  [watchId |-> watchId, watches |-> watches, calls |-> <<>>, cleared |-> {},
   failed |-> nativeFailed]

\* LocationService.stopLocationUpdates; clearWatch clears the watch (clearOk)
\* or throws and leaves it
ServiceStopLocationUpdates(st, clearOk) ==
  IF st.watchId # {}
  THEN IF clearOk
       THEN [st EXCEPT !.watches = @ \ st.watchId,
                       !.watchId = {},
                       !.calls = Append(@, "clearWatch"),
                       !.cleared = @ \cup st.watchId]
       ELSE [st EXCEPT !.calls = Append(@, "clearWatch"),
                       !.cleared = @ \cup st.watchId,
                       !.failed = TRUE]
  ELSE st

\* LocationService.startLocationUpdates; watchPosition returns the id of a
\* new watch (watchOk) or throws
ServiceStartLocationUpdates(st, id, clearOk, watchOk) ==
  LET stopped == IF st.watchId # {} THEN ServiceStopLocationUpdates(st, clearOk)
                 ELSE st
  IN  IF watchOk
      THEN [stopped EXCEPT !.watchId = {id},
                           !.watches = @ \cup {id},
                           !.calls = Append(@, "watchPosition")]
      ELSE [stopped EXCEPT !.calls = Append(@, "watchPosition"),
                           !.failed = TRUE]

\* the conditions of registerLocationCallback and unregisterLocationCallback
ShouldStart(cbs, updating) == Len(cbs) > 0 /\ ~updating
\* a faulty variant: updates stop with every callback that is removed
ShouldStopAlways(cbs, updating) == updating
ShouldStop(cbs, updating) == Len(cbs) = 0 /\ updating

LocationInit ==
  /\ callbacks = <<>>
  /\ isUpdating = FALSE
  /\ watchId = {}
  /\ watches = {}
  /\ received = [cb \in LocationCallbacks |-> {}]
  /\ nativeCalls = <<>>
  /\ clearArg = {}
  /\ nativeFailed = FALSE

\* ------------------------------------ AircraftTypeDatabase, AircraftImageService
\* The types asked for: one the database lists, one it only matches to the
\* generic aircraft, and 'Unknown'.  An image path is named by its image id.
ImageTypes == {"B737", "ZZZZ", "Unknown"}
NumImageSources == 3

B737Type ==
  [icaoCode |-> "B737", category |-> "commercial_jet",
   imageIds |-> <<"boeing-737", "b737-generic">>]
CommercialJetDefaultType ==
  [icaoCode |-> "COMM", category |-> "commercial_jet",
   imageIds |-> <<"commercial-jet-generic">>]
OtherDefaultType ==
  [icaoCode |-> "OTHR", category |-> "other", imageIds |-> <<"aircraft-generic">>]

ImageIds == {"boeing-737", "b737-generic", "commercial-jet-generic", "aircraft-generic"}

getDefaultType(category) ==
  IF category = "commercial_jet" THEN CommercialJetDefaultType ELSE OtherDefaultType

lookupByIcaoCode(icaoCode) == IF icaoCode = "B737" THEN {B737Type} ELSE {}
\* no model name of the database matches "ZZZZ" or is matched by it
lookupByModelName(modelName) == {}
lookupSimilar(query) ==
  IF lookupByIcaoCode(query) # {} THEN lookupByIcaoCode(query)
  ELSE IF lookupByModelName(query) # {} THEN lookupByModelName(query)
  ELSE {getDefaultType("other")}

\* lookupAircraftTypeInfo: null for 'Unknown', else the three lookups in turn
lookupAircraftTypeInfo(aircraftType) ==
  IF aircraftType = "Unknown" THEN {}
  ELSE IF lookupByIcaoCode(aircraftType) # {} THEN lookupByIcaoCode(aircraftType)
  ELSE IF lookupByModelName(aircraftType) # {} THEN lookupByModelName(aircraftType)
  ELSE lookupSimilar(aircraftType)

\* a faulty variant: no category default is tried
NoFallbackImageIds(aircraftInfo) == <<>>

\* the image id of the category's default type, when there is one
FallbackImageIds(aircraftInfo) ==
  LET fallbackType == getDefaultType(aircraftInfo.category)
  IN  IF Len(fallbackType.imageIds) > 0 THEN <<fallbackType.imageIds[1]>> ELSE <<>>

NoClearCall == [pc |-> "idle", deleted |-> {}]

NoPrefetchCall == [pc |-> "idle", pending |-> {}, failed |-> {}, outcome |-> "none"]

\* a faulty variant: the flag is reset at the end of the try block only
isPrefetchingWithoutFinally(failed) == failed

\* prefetchImagesForTypes: isPrefetching after the finally block, which runs
\* whether the try block ended normally or in the catch block
isPrefetchingAfterFinally(failed) == IF failed THEN FALSE ELSE FALSE

ImageInit ==
  /\ memoryCache = [t \in ImageTypes |-> {}]
  /\ files = {}
  /\ ipc = [p \in Procs |-> "idle"]
  /\ itype = [p \in Procs |-> "Unknown"]
  /\ ipart = [p \in Procs |-> "none"]
  /\ iidx = [p \in Procs |-> 0]
  /\ isrc = [p \in Procs |-> 0]
  /\ ipath = [p \in Procs |-> {}]
  /\ ihit = [p \in Procs |-> FALSE]
  /\ ifs = [p \in Procs |-> FALSE]
  /\ ifailed = [p \in Procs |-> {}]
  /\ ichecked = [p \in Procs |-> {}]
  /\ cacheAge = [t \in ImageTypes |-> 0]
  /\ clearCall = NoClearCall
  /\ isPrefetching = FALSE
  /\ prefetchCalls = [p \in Procs |-> NoPrefetchCall]

\* --------------------------------- DeepLinkHandler, notification actions
DeepLinkTypes == {"flight-details", "flight-history", "settings", "dashboard"}

NotificationActionTypes == {"view_details", "show_history", "dismiss"}

\* a link type or an action identifier outside the enumeration
UnknownType == "unknown"

\* a parameter object is a set of key-value pairs; an optional one is the
\* empty set (undefined) or the set holding the object
ParamFlightIds == {"flight123", ""}

ParamObjects == {{}} \cup {{<<"flightId", f>>} : f \in ParamFlightIds}

OptionalParams == {{}} \cup {{o} : o \in ParamObjects}

\* notification.payload?.data?.flightId: the values found, none for undefined
FlightIdOf(data) ==
  IF data = {} THEN {}
  ELSE {kv[2] : kv \in {x \in TheEntry(data) : x[1] = "flightId"}}

\* !flightId: undefined or the empty string
FlightIdMissing(data) == FlightIdOf(data) = {} \/ FlightIdOf(data) = {""}

ScreenName(type) ==
  CASE type = "flight-details" -> "FlightDetailsScreen"
    [] type = "flight-history" -> "FlightHistoryScreen"
    [] type = "settings" -> "SettingsScreen"
    [] type = "dashboard" -> "DashboardScreen"
    [] OTHER -> ""

NoNavigation == [configs |-> <<>>, calls |-> <<>>, result |-> FALSE]

\* navigateToScreen(config) with the navigation function fn; the function is
\* called with config.params as they are, and an exception of it is caught
navigateToScreen(fn, config, throws) ==
  IF fn = Null THEN NoNavigation
  ELSE IF config.type \notin DeepLinkTypes THEN NoNavigation
  ELSE [configs |-> <<>>,
        calls |-> <<[screenName |-> ScreenName(config.type),
                      params |-> config.params]>>,
        result |-> ~throws]

ViaNavigateToScreen(fn, config, throws) ==
  [navigateToScreen(fn, config, throws) EXCEPT !.configs = <<config>>]

\* a faulty variant: every action with a flight id opens the details
handleActionAsDetails(fn, identifier, data, throws) ==
  IF FlightIdMissing(data) THEN NoNavigation
  ELSE ViaNavigateToScreen(fn, [type |-> "flight-details",
                                params |-> {{<<"flightId", f>> : f \in FlightIdOf(data)}}],
                           throws)

\* handleNotificationAction(action): identifier is action.identifier, data
\* is action.notification.payload?.data
handleNotificationAction(fn, identifier, data, throws) ==
  IF FlightIdMissing(data) THEN NoNavigation
  ELSE CASE identifier = "view_details" ->
              ViaNavigateToScreen(fn, [type |-> "flight-details",
                                       params |-> {{<<"flightId", f>> : f \in FlightIdOf(data)}}],
                                  throws)
         [] identifier = "show_history" ->
              ViaNavigateToScreen(fn, [type |-> "flight-history", params |-> {{}}],
                                  throws)
         [] identifier = "dismiss" -> [NoNavigation EXCEPT !.result = TRUE]
         [] OTHER -> NoNavigation

NavInit ==
  /\ navigateFunction = Null
  /\ navRequest = [op |-> "none", type |-> "none", params |-> {},
                   registered |-> FALSE, throws |-> FALSE]
  /\ navOutcome = NoNavigation

\* ------------------------------------------------------ PermissionManager
Platforms == {"ios", "android", "web"}

PermissionStatuses == {"granted", "denied", "blocked"}

LocationAlways == "ios.permission.LOCATION_ALWAYS"

AccessFineLocation == "android.permission.ACCESS_FINE_LOCATION"

AccessBackgroundLocation == "android.permission.ACCESS_BACKGROUND_LOCATION"

Permissions == {LocationAlways, AccessFineLocation, AccessBackgroundLocation}

\* a faulty variant: the result of the check is not looked at
ForegroundIgnored(status, rejected) == TRUE

\* checkLocationPermission(): the check gave GRANTED; a rejected check is
\* caught and gives false
ForegroundGranted(status, rejected) == ~rejected /\ status = "granted"

NoPermCall ==
  [pc |-> "idle", os |-> "web", checked |-> "none", requested |-> <<>>,
   result |-> FALSE]

PermInit ==
  /\ permStatus = [q \in Permissions |-> "denied"]
  /\ permCall = NoPermCall

\* ------------------------- BackgroundTaskManager and the two task owners
LocationTaskId == "com.flightoverhead.location"

FlightCheckTaskId == "com.flightoverhead.flightcheck"

TaskIds == {LocationTaskId, FlightCheckTaskId}

\* the functions registered as tasks: none, the location task and the
\* placeholder of BackgroundService, the task of FlightDetectionManager
NoTask == "none"

LocationTask == "locationTask"

PlaceholderTask == "flightCheckTask (placeholder)"

DetectionTask == "performDetection"

\* registerTask(taskId, task): the entry of the id is replaced
registerTask(map, taskId, task) == [map EXCEPT ![taskId] = task]

NoBackgroundCall == [op |-> "none", pc |-> "idle", result |-> FALSE]

NoRun == [task |-> NoTask, managerCreated |-> FALSE]

NoManagerCall == [op |-> "none", pc |-> "idle", result |-> "none"]

\* the task callback is not executing
NoFetchRun == [taskId |-> "none", pc |-> "idle", outcome |-> "none", finishedBy |-> {}]

ManagerOps == {"initialize", "scheduleLocationUpdates", "scheduleFlightCheck",
               "isBackgroundTaskEnabled"}

\* the task id a schedule method passes to BackgroundFetch.scheduleTask
ScheduledTaskId(op) ==
  IF op = "scheduleLocationUpdates" THEN LocationTaskId ELSE FlightCheckTaskId

\* a faulty variant: a task that throws ends the callback
AfterTaskUncaught(ok) == IF ok THEN "finish" ELSE "ended"

\* the task callback after await task(): a resolved task is logged, a
\* rejected one is caught and reported, and both go on to the finish call
AfterTask(ok) == IF ok THEN "finish" ELSE "finish"

BackgroundInit ==
  /\ instances = {}
  /\ tasks = [t \in TaskIds |-> NoTask]
  /\ initialized = FALSE
  /\ scheduled = {}
  /\ detectionActive = FALSE
  /\ bcall = NoBackgroundCall
  /\ lastRun = NoRun
  /\ mcalls = [p \in Procs |-> NoManagerCall]
  /\ configureCount = 0
  /\ frun = NoFetchRun

\* ------------------------------------------------------- FlightRepository
NoRepositoryCall == [op |-> "none", pc |-> "idle", flights |-> <<>>]

\* what a detection finds and hands to saveFlights: a poll with flights
DetectedFlights == Polls \ {<<>>}

\* saveFlights(flights): storeData puts the array under the key in place of
\* what was there
StoredBySave(stored, flights) == {flights}

\* getAllFlights(): flights || []
AllFlights(stored) == IF stored = {} THEN <<>> ELSE TheEntry(stored)

HistoryInit ==
  /\ flightStore = {}
  /\ hcall = NoRepositoryCall
  /\ savedFlights = {}

\* --- FlightApiService
\* no call of this caller is in flight
NoApiCall == [pc |-> "idle", op |-> "none", delayMs |-> 0, result |-> "none"]

\* the rate-limiting interceptor: how long a request arriving now is delayed
delayMs(timeSinceLastRequest) ==
  IF timeSinceLastRequest < MinRequestInterval
  THEN MinRequestInterval - timeSinceLastRequest
  ELSE 0

\* lastRequestTime = 0 against Date.now(): the first request is not delayed
ApiInit ==
  /\ lastRequestAge = MinRequestInterval
  /\ apiCalls = [p \in Procs |-> NoApiCall]
  /\ sentAge = MinRequestInterval

\* --- FlightDetectionManager.performDetection
NoPerformCall ==
  [pc |-> "idle", location |-> {}, detectedFlights |-> <<>>, failed |-> "none",
   settled |-> "none", value |-> <<>>]

\* a faulty variant: the error is passed on to the caller
RejectWith(call, step) ==
  [call EXCEPT !.pc = "done", !.failed = step, !.settled = "rejected"]

\* the catch block of performDetection: the error is logged and reported,
\* and [] is returned
CatchAndReturnEmpty(call, step) ==
  [call EXCEPT !.pc = "done", !.failed = step, !.settled = "resolved", !.value = <<>>]

\* return value: the promise resolves to it
ReturnFlights(call, flights) ==
  [call EXCEPT !.pc = "done", !.settled = "resolved", !.value = flights]

\* getLocation gave a location or null: without one [] is returned, with one
\* the settings are read
AfterGetLocation(call, location) ==
  IF location = {}
  THEN ReturnFlights(call, <<>>)
  ELSE [call EXCEPT !.pc = "getSettings", !.location = location]

\* getInstance without a notification manager: it is set later
PerformInit ==
  /\ notificationManagerSet = FALSE
  /\ pdCall = NoPerformCall

\* --- DeepLinkHandler: createDeepLink and handleDeepLink
\* Strings are sequences of characters.  A URL is a sequence of characters
\* in which the scheme, a screen path and an escape sequence of
\* encodeURIComponent ("%3D" and the like, which holds no separator) each
\* count as one character.
Chars == {"a", "="}

Texts == UNION {[1..n -> Chars] : n \in 0..MaxTextLen}

\* config.params as Object.entries lists it: entries with distinct keys,
\* undefined being the empty set and an object the set holding its entries
ParamEntryLists ==
  {es \in UNION {[1..n -> Texts \X Texts] : n \in 0..MaxParams} :
     \A i, j \in 1..Len(es) : es[i][1] = es[j][1] => i = j}

OptionalEntryLists == {{}} \cup {{es} : es \in ParamEntryLists}

\* the object of a list of entries: a later entry of a key replaces an
\* earlier one
ObjectOf(es) ==
  {es[i] : i \in {k \in 1..Len(es) : \A j \in (k + 1)..Len(es) : es[j][1] # es[k][1]}}

appScheme == "flightoverhead://"

EscapeChar(c) ==
  CASE c = "=" -> "%3D"
    [] c = "&" -> "%26"
    [] c = "?" -> "%3F"
    [] OTHER -> c

UnescapeChar(c) ==
  CASE c = "%3D" -> "="
    [] c = "%26" -> "&"
    [] c = "%3F" -> "?"
    [] OTHER -> c

encodeURIComponent(text) == [i \in 1..Len(text) |-> EscapeChar(text[i])]

decodeURIComponent(text) == [i \in 1..Len(text) |-> UnescapeChar(text[i])]

getPathFromDeepLinkType(type) ==
  CASE type = "flight-details" -> <<"flight">>
    [] type = "flight-history" -> <<"history">>
    [] type = "settings" -> <<"settings">>
    [] type = "dashboard" -> <<"dashboard">>
    [] OTHER -> <<>>

getDeepLinkTypeFromPath(path) ==
  CASE path = <<"flight">> -> "flight-details"
    [] path = <<"history">> -> "flight-history"
    [] path = <<"settings">> -> "settings"
    [] OTHER -> "dashboard"

\* entries.map(([key, value]) => `${key}=${encodeURIComponent(value)}`).join('&')
RECURSIVE JoinQuery(_)
JoinQuery(es) ==
  IF Len(es) = 0 THEN <<>>
  ELSE LET first == es[1][1] \o <<"=">> \o encodeURIComponent(es[1][2])
       IN  IF Len(es) = 1 THEN first
           ELSE first \o <<"&">> \o JoinQuery(Tail(es))

\* createDeepLink(config): the scheme, the path of the type and, for a
\* parameter object with entries, '?' and the query
createDeepLink(config) ==
  <<appScheme>> \o getPathFromDeepLinkType(config.type) \o
    (IF config.params # {} /\ Len(TheEntry(config.params)) > 0
     THEN <<"?">> \o JoinQuery(TheEntry(config.params))
     ELSE <<>>)

\* text.split(separator): the pieces between the separators
RECURSIVE Split(_, _)
Split(text, separator) ==
  IF \A i \in 1..Len(text) : text[i] # separator THEN <<text>>
  ELSE LET k == CHOOSE i \in 1..Len(text) :
                  text[i] = separator /\ \A j \in 1..(i - 1) : text[j] # separator
       IN  <<SubSeq(text, 1, k - 1)>> \o Split(SubSeq(text, k + 1, Len(text)), separator)

\* the entries handleDeepLink takes from a query string: of each piece
\* between '&' the text before the first '=' and the text after it up to the
\* next '=', kept when neither is missing or empty, the value decoded
QueryEntries(queryString) ==
  LET pieces == Split(queryString, "&")
      Pair(i) == Split(pieces[i], "=")
      kept == SelectSeq([i \in 1..Len(pieces) |-> Pair(i)],
                        LAMBDA kv : Len(kv) >= 2 /\ Len(kv[1]) > 0 /\ Len(kv[2]) > 0)
  IN  [i \in 1..Len(kept) |-> <<kept[i][1], decodeURIComponent(kept[i][2])>>]

\* handleDeepLink(url): a URL of another scheme is refused; the path before
\* the first '?' gives the type and the query after it the parameters, and
\* navigateToScreen does the rest
handleDeepLink(fn, url, throws) ==
  IF Len(url) = 0 \/ url[1] # appScheme THEN NoNavigation
  ELSE LET parts == Split(Tail(url), "?")
           screenPath == parts[1]
           params == IF Len(parts) >= 2 /\ Len(parts[2]) > 0
                     THEN ObjectOf(QueryEntries(parts[2]))
                     ELSE {}
       IN  ViaNavigateToScreen(fn, [type |-> getDeepLinkTypeFromPath(screenPath),
                                    params |-> {params}],
                               throws)

\* ------------------------------------------------------------------ Init
Init ==
  /\ lastDetectedFlights = <<>>
  /\ notificationsEnabled = TRUE
  /\ managerInit = "none"
  \* lastNotificationTime = 0: the first call is never throttled
  /\ lastNotificationAge = ThrottleInterval
  /\ sentNotifications = {}
  /\ timers = {}
  /\ pc = [p \in Procs |-> "idle"]
  /\ kind = [p \in Procs |-> "none"]
  /\ newDetections = [p \in Procs |-> <<>>]
  /\ flightsToNotify = [p \in Procs |-> <<>>]
  /\ idx = [p \in Procs |-> 0]
  /\ outcomes = [p \in Procs |-> <<>>]
  /\ detectError = [p \in Procs |-> NoError]
  /\ prevPollIds = {}
  /\ owed = {}
  /\ live = [i \in AllFlightIds |-> 0]
  /\ hold = [i \in AllFlightIds |-> 0]
  /\ postAge = ThrottleInterval
  /\ startAge = [p \in Procs |-> ThrottleInterval]
  /\ overlapPost = [p \in Procs |-> FALSE]
  /\ gate = [p \in Procs |-> "none"]
  /\ postedBy = [p \in Procs |-> {}]
  /\ store = [k \in CacheKeys |-> NoEntry]
  /\ registry = <<>>
  /\ cpc = [p \in Procs |-> "idle"]
  /\ cop = [p \in Procs |-> "none"]
  /\ ckey = [p \in Procs |-> "none"]
  /\ centry = [p \in Procs |-> NoEntry]
  /\ ckeys = [p \in Procs |-> <<>>]
  /\ cresult = [p \in Procs |-> Null]
  /\ csize = [p \in Procs |-> 0]
  /\ written = [k \in CacheKeys |-> NoEntry]
  /\ seen = [p \in Procs |-> NoEntry]
  /\ snapshot = [p \in Procs |-> {}]
  /\ RepoInit
  /\ SettingsInit
  /\ LocationInit
  /\ ImageInit
  /\ NavInit
  /\ PermInit
  /\ BackgroundInit
  /\ HistoryInit
  /\ ApiInit
  /\ PerformInit

\* ------------------------------------------------ calls in flight: helpers
\* a notifyFlightDetected / notifyFlightsDetected call has begun and has not
\* returned
InManagerCall(p) == pc[p] \in {"show", "posting", "resume"}

CurrentFlight(p) == flightsToNotify[p][idx[p]]

ResetCall(p) ==
  /\ kind' = [kind EXCEPT ![p] = "none"]
  /\ newDetections' = [newDetections EXCEPT ![p] = <<>>]
  /\ flightsToNotify' = [flightsToNotify EXCEPT ![p] = <<>>]
  /\ idx' = [idx EXCEPT ![p] = 0]
  /\ outcomes' = [outcomes EXCEPT ![p] = <<>>]
  /\ detectError' = [detectError EXCEPT ![p] = NoError]
  /\ startAge' = [startAge EXCEPT ![p] = ThrottleInterval]
  /\ overlapPost' = [overlapPost EXCEPT ![p] = FALSE]
  /\ gate' = [gate EXCEPT ![p] = "none"]
  /\ postedBy' = [postedBy EXCEPT ![p] = {}]

\* ---------------------------------------- FlightDetectionManager / Detector

\* performDetection is called (by the background task or the UI) and awaits
\* detectOverheadFlights, which awaits getNearbyAircraft
StartDetection(p) ==
  /\ pc[p] = "idle"
  /\ pc' = [pc EXCEPT ![p] = "detecting"]
  /\ kind' = [kind EXCEPT ![p] = "cycle"]
  /\ UNCHANGED <<detVars, mgrVars, svcVars, newDetections, flightsToNotify, idx,
                 outcomes, detectError, histVars>>
  /\ UNCHANGED nonPipelineVars

\* getNearbyAircraft resolved with nearbyAircraft: detectOverheadFlights
\* identifies the new flights and replaces lastDetectedFlights; performDetection
\* goes on to saveFlights when there are new flights
DetectReturn(p, nearbyAircraft) ==
  /\ pc[p] = "detecting"
  /\ LET newFlights == identifyNewFlights(nearbyAircraft, lastDetectedFlights)
     IN  /\ newDetections' = [newDetections EXCEPT ![p] = newFlights]
         /\ pc' = [pc EXCEPT ![p] = IF Len(newFlights) > 0 THEN "saving" ELSE "done"]
         /\ owed' = IF notificationsEnabled
                    THEN (owed \cap Ids(nearbyAircraft)) \cup Ids(newFlights)
                    ELSE owed \cap Ids(nearbyAircraft)
  /\ lastDetectedFlights' = nearbyAircraft
  /\ prevPollIds' = Ids(nearbyAircraft)
  /\ UNCHANGED <<mgrVars, svcVars, kind, flightsToNotify, idx, outcomes, detectError,
                 live, hold, postAge, startAge, overlapPost, gate, postedBy>>
  /\ UNCHANGED nonPipelineVars

\* a faulty variant: the catch block forgets what was detected before
DetectFailForgetting(p) ==
  /\ pc[p] = "detecting"
  /\ pc' = [pc EXCEPT ![p] = "done"]
  /\ detectError' = [detectError EXCEPT ![p] = FlightDetectionError]
  /\ lastDetectedFlights' = <<>>
  /\ UNCHANGED <<mgrVars, svcVars, kind, newDetections, flightsToNotify,
                 idx, outcomes, histVars>>
  /\ UNCHANGED nonPipelineVars

\* getNearbyAircraft rejected: detectOverheadFlights throws a
\* FlightDetectionError from its catch block, performDetection catches it and
\* returns []
DetectFail(p) ==
  /\ pc[p] = "detecting"
  /\ pc' = [pc EXCEPT ![p] = "done"]
  /\ detectError' = [detectError EXCEPT ![p] = FlightDetectionError]
  /\ UNCHANGED <<detVars, mgrVars, svcVars, kind, newDetections, flightsToNotify,
                 idx, outcomes, histVars>>
  /\ UNCHANGED nonPipelineVars

\* saveFlights rejected: performDetection returns [] without notifying
SaveFail(p) ==
  /\ pc[p] = "saving"
  /\ pc' = [pc EXCEPT ![p] = "done"]
  /\ owed' = owed \ Ids(newDetections[p])
  /\ UNCHANGED <<detVars, mgrVars, svcVars, kind, newDetections, flightsToNotify,
                 idx, outcomes, detectError, prevPollIds, live, hold, postAge,
                 startAge,
                 overlapPost, gate, postedBy>>
  /\ UNCHANGED nonPipelineVars

\* ---------------------------------------------------- NotificationManager

\* the synchronous head of notifyFlightsDetected / notifyFlightDetected: the
\* enabled flag and the throttle gate, then the first await
BeginNotify(p, flights) ==
  /\ startAge' = [startAge EXCEPT ![p] = postAge]
  /\ overlapPost' = [overlapPost EXCEPT ![p] = FALSE]
  /\ gate' = [gate EXCEPT ![p] =
                IF notificationsEnabled /\ lastNotificationAge >= ThrottleInterval
                THEN "open" ELSE "closed"]
  /\ postedBy' = [postedBy EXCEPT ![p] = {}]
  /\ outcomes' = [outcomes EXCEPT ![p] = <<>>]
  /\ UNCHANGED detectError
  /\ IF notificationsEnabled /\ shouldSendNotification(lastNotificationAge)
     THEN /\ flightsToNotify' = [flightsToNotify EXCEPT ![p] = flights]
          /\ idx' = [idx EXCEPT ![p] = 1]
          /\ pc' = [pc EXCEPT ![p] = "show"]
     ELSE /\ flightsToNotify' = [flightsToNotify EXCEPT ![p] = <<>>]
          /\ idx' = [idx EXCEPT ![p] = 0]
          /\ pc' = [pc EXCEPT ![p] = "done"]

\* saveFlights resolved; performDetection calls notifyFlightsDetected with
\* the new detections
NotifyFlightsDetected(p) ==
  /\ pc[p] = "saving"
  /\ BeginNotify(p, SelectFlightsToNotify(newDetections[p]))
  /\ UNCHANGED <<detVars, mgrVars, svcVars, kind, newDetections,
                 prevPollIds, owed, live, hold, postAge>>
  /\ UNCHANGED nonPipelineVars

\* notifyFlightDetected(flight) is called
NotifyFlightDetected(p, flight) ==
  /\ pc[p] = "idle"
  /\ kind' = [kind EXCEPT ![p] = "single"]
  /\ BeginNotify(p, <<flight>>)
  /\ UNCHANGED <<detVars, mgrVars, svcVars, newDetections,
                 prevPollIds, owed, live, hold, postAge>>
  /\ UNCHANGED nonPipelineVars

\* ---------------------------------------------------- NotificationService

\* showFlightNotification after `await setupNotifications()`: the duplicate
\* check and, with no await in between, the call of postLocalNotification,
\* which posts (ok) or rejects
ShowFlightNotification(p, ok) ==
  /\ pc[p] = "show"
  /\ LET flight == CurrentFlight(p)
     IN  IF flight.id \in sentNotifications
         THEN /\ outcomes' = [outcomes EXCEPT ![p] = Append(@, "duplicate")]
              /\ pc' = [pc EXCEPT ![p] = "resume"]
              /\ UNCHANGED <<owed, live, postAge, overlapPost, postedBy>>
         ELSE IF ok
         THEN /\ pc' = [pc EXCEPT ![p] = "posting"]
              /\ live' = [live EXCEPT ![flight.id] = Min(@ + 1, 2)]
              /\ owed' = owed \ {flight.id}
              /\ postAge' = 0
              /\ overlapPost' = [q \in Procs |->
                                   IF q # p /\ InManagerCall(q) THEN TRUE
                                   ELSE overlapPost[q]]
              /\ postedBy' = [postedBy EXCEPT ![p] = @ \cup {flight.id}]
              /\ UNCHANGED outcomes
         ELSE /\ outcomes' = [outcomes EXCEPT ![p] = Append(@, "failed")]
              /\ pc' = [pc EXCEPT ![p] = "resume"]
              /\ owed' = owed \ {flight.id}
              /\ UNCHANGED <<live, postAge, overlapPost, postedBy>>
  /\ UNCHANGED <<detVars, mgrVars, svcVars, kind, newDetections, flightsToNotify,
                 idx, detectError, prevPollIds, hold, startAge, gate>>
  /\ UNCHANGED nonPipelineVars

\* postLocalNotification resolved: the id joins sentNotifications and a timer
\* is set to delete it after the duration
AfterPost(p) ==
  /\ pc[p] = "posting"
  /\ LET flight == CurrentFlight(p)
         durationMs == calculateNotificationDuration(flight)
     IN  /\ sentNotifications' = sentNotifications \cup {flight.id}
         /\ timers' = timers \cup {[id |-> flight.id, left |-> durationMs]}
         /\ hold' = [hold EXCEPT ![flight.id] = durationMs]
  /\ outcomes' = [outcomes EXCEPT ![p] = Append(@, "posted")]
  /\ pc' = [pc EXCEPT ![p] = "resume"]
  /\ UNCHANGED <<detVars, mgrVars, kind, newDetections, flightsToNotify, idx,
                 detectError, prevPollIds, owed, live, postAge, startAge, overlapPost, gate, postedBy>>
  /\ UNCHANGED nonPipelineVars

\* the manager resumes after `await showFlightNotification`: the batch goes
\* on to its next flight or finishes; lastNotificationTime = Date.now() when
\* something was notified
ResumeNotify(p) ==
  /\ pc[p] = "resume"
  /\ IF kind[p] = "cycle" /\ idx[p] < Len(flightsToNotify[p])
     THEN /\ idx' = [idx EXCEPT ![p] = @ + 1]
          /\ pc' = [pc EXCEPT ![p] = "show"]
          /\ UNCHANGED lastNotificationAge
     ELSE /\ pc' = [pc EXCEPT ![p] = "done"]
          /\ lastNotificationAge' =
               IF Len(NotifiedFlights(p)) > 0 THEN 0 ELSE lastNotificationAge
          /\ UNCHANGED idx
  /\ UNCHANGED <<detVars, notificationsEnabled, managerInit, svcVars, kind, newDetections,
                 flightsToNotify, outcomes, detectError, histVars>>
  /\ UNCHANGED nonPipelineVars

\* the call's promise is consumed by its caller
Return(p) ==
  /\ pc[p] = "done"
  /\ pc' = [pc EXCEPT ![p] = "idle"]
  /\ ResetCall(p)
  /\ UNCHANGED <<detVars, mgrVars, svcVars, prevPollIds, owed, live, hold, postAge>>
  /\ UNCHANGED nonPipelineVars

\* the setTimeout callback of showFlightNotification
TimerFire(t) ==
  /\ t \in timers
  /\ t.left = 0
  /\ timers' = timers \ {t}
  /\ sentNotifications' = sentNotifications \ {t.id}
  /\ live' = IF t.id \in sentNotifications THEN [live EXCEPT ![t.id] = 0] ELSE live
  /\ UNCHANGED <<detVars, mgrVars, callVars, prevPollIds, owed, hold, postAge,
                 startAge, overlapPost, gate, postedBy>>
  /\ UNCHANGED nonPipelineVars

\* cancelNotification(id)
CancelNotification(id) ==
  /\ sentNotifications' = sentNotifications \ {id}
  /\ live' = IF id \in sentNotifications THEN [live EXCEPT ![id] = 0] ELSE live
  /\ hold' = [hold EXCEPT ![id] = 0]
  /\ UNCHANGED <<detVars, mgrVars, timers, callVars, prevPollIds, owed, postAge,
                 startAge, overlapPost, gate, postedBy>>
  /\ UNCHANGED nonPipelineVars

\* cancelAllNotifications()
CancelAllNotifications ==
  /\ sentNotifications' = {}
  /\ live' = [i \in AllFlightIds |-> IF i \in sentNotifications THEN 0 ELSE live[i]]
  /\ hold' = [i \in AllFlightIds |-> 0]
  /\ UNCHANGED <<detVars, mgrVars, timers, callVars, prevPollIds, owed, postAge,
                 startAge, overlapPost, gate, postedBy>>
  /\ UNCHANGED nonPipelineVars

\* 30 seconds pass; a timer that is due fires before more time passes
Tick ==
  /\ \A t \in timers : t.left > 0
  /\ timers' = {[t EXCEPT !.left = @ - 1] : t \in timers}
  /\ lastNotificationAge' = Min(lastNotificationAge + 1, ThrottleInterval)
  /\ postAge' = Min(postAge + 1, ThrottleInterval)
  /\ startAge' = startAge
  /\ hold' = [i \in AllFlightIds |-> IF hold[i] > 0 THEN hold[i] - 1 ELSE 0]
  /\ UNCHANGED <<detVars, notificationsEnabled, managerInit, sentNotifications, callVars,
                 prevPollIds, owed, live, overlapPost, gate, postedBy>>
  /\ UNCHANGED nonPipelineVars

\* notifyFlightsDetected(flights) is called with a non-empty list
CallNotifyFlightsDetected(p, flights) ==
  /\ pc[p] = "idle"
  /\ Len(flights) > 0
  /\ kind' = [kind EXCEPT ![p] = "cycle"]
  /\ BeginNotify(p, SelectFlightsToNotify(flights))
  /\ UNCHANGED <<detVars, mgrVars, svcVars, newDetections,
                 prevPollIds, owed, live, hold, postAge>>
  /\ UNCHANGED nonPipelineVars

\* The detection pipeline: the background task runs performDetection cycles.
DetectionNext ==
  \/ StartDetection("bg")
  \/ \E poll \in Polls : DetectReturn("bg", poll)
  \/ DetectFail("bg")
  \/ SaveFail("bg")
  \/ NotifyFlightsDetected("bg")
  \/ \E ok \in BOOLEAN : ShowFlightNotification("bg", ok)
  \/ AfterPost("bg")
  \/ ResumeNotify("bg")
  \/ Return("bg")
  \/ \E t \in timers : TimerFire(t)
  \/ Tick

DetectionSpec == Init /\ [][DetectionNext]_vars

\* the aircraft that overlapping callers notify about, and whose
\* notifications get cancelled: those with the lowest ids
OverlapFlights == {f \in Flights : f.id <= NumOverlapFlights}
OverlapPolls == {s \in Polls : \A i \in 1..Len(s) : s[i] \in OverlapFlights}
Ids1(fs) == {f.id : f \in fs}

\* The detection pipeline with notifications being cancelled meanwhile.
CancelNext ==
  \/ DetectionNext
  \/ \E id \in Ids1(OverlapFlights) : CancelNotification(id)

CancelSpec == Init /\ [][CancelNext]_vars

\* The notification manager and service under calls that overlap.
NotifyNext ==
  \/ \E p \in Procs, flights \in OverlapPolls : CallNotifyFlightsDetected(p, flights)
  \/ \E p \in Procs, f \in OverlapFlights : NotifyFlightDetected(p, f)
  \/ \E p \in Procs, ok \in BOOLEAN : ShowFlightNotification(p, ok)
  \/ \E p \in Procs : AfterPost(p)
  \/ \E p \in Procs : ResumeNotify(p)
  \/ \E p \in Procs : Return(p)
  \/ \E t \in timers : TimerFire(t)
  \/ \E id \in Ids1(OverlapFlights) : CancelNotification(id)
  \/ CancelAllNotifications
  \/ Tick

NotifySpec == Init /\ [][NotifyNext]_vars

\* The notification manager under calls that overlap, each caller notifying
\* about an aircraft of its own: the background task about the first, the UI
\* about the second.
CallerFlight(p) == CHOOSE f \in Flights : f.id = (IF p = "bg" THEN 1 ELSE 2)
GateNext ==
  \/ \E p \in Procs : CallNotifyFlightsDetected(p, <<CallerFlight(p)>>)
  \/ \E p \in Procs : NotifyFlightDetected(p, CallerFlight(p))
  \/ \E p \in Procs, ok \in BOOLEAN : ShowFlightNotification(p, ok)
  \/ \E p \in Procs : AfterPost(p)
  \/ \E p \in Procs : ResumeNotify(p)
  \/ \E p \in Procs : Return(p)
  \/ \E t \in timers : TimerFire(t)
  \/ Tick

GateSpec == Init /\ [][GateNext]_vars

\* ------------------------------------------------------------ CacheService
\* Every AsyncStorage call takes effect when it is issued; the caller resumes
\* in a later step.  AsyncStorage calls are taken to succeed.

\* CacheEntry: the data, the time since timestamp = Date.now() of the write,
\* and the expiry asked for
CacheEntry(data, expiryMs) == [data |-> data, age |-> 0, expiryMs |-> expiryMs]

\* a faulty variant: an entry exactly expiryMs old counts as expired
IsExpiredAtExpiry(entry) == entry.age >= entry.expiryMs

\* now - entry.timestamp > entry.expiryMs
IsExpired(entry) == entry.age > entry.expiryMs

\* an entry, stored or held by a call in flight, one time unit later
Older(slot) == {[e EXCEPT !.age = Min(e.age + 1, e.expiryMs + 1)] : e \in slot}

SeqToSet(sq) == {sq[i] : i \in 1..Len(sq)}

\* a faulty variant: the registry is never searched
includesNever(keys, key) == FALSE

\* keys.includes(key)
includes(keys, key) == key \in SeqToSet(keys)

\* the keys a completed cacheData call has written and nothing has removed
WrittenKeys ==
  {k \in CacheKeys :
     /\ written[k] # NoEntry
     /\ \A q \in Procs : ~(cop[q] = "cacheData" /\ ckey[q] = k)}

\* a faulty variant: the filter keeps the key instead of dropping it
removeKeyInverted(keys, key) == SelectSeq(keys, LAMBDA k : k = key)

\* keys.filter(k => k !== key)
removeKey(keys, key) == SelectSeq(keys, LAMBDA k : k # key)

CacheStep(p, from, to) ==
  /\ cpc[p] = from
  /\ cpc' = [cpc EXCEPT ![p] = to]

\* cacheData(key, data, expiryMs) is called: the entry is built and
\* AsyncStorage.setItem(prefixedKey, entry) issued
CacheData(p, key, data, expiryMs) ==
  /\ CacheStep(p, "idle", "add_read")
  /\ cop' = [cop EXCEPT ![p] = "cacheData"]
  /\ ckey' = [ckey EXCEPT ![p] = key]
  /\ store' = [store EXCEPT ![key] = {CacheEntry(data, expiryMs)}]
  /\ written' = [written EXCEPT ![key] = {[data |-> data, age |-> 0, expiryMs |-> expiryMs]}]
  /\ snapshot' = [q \in Procs |-> snapshot[q] \ {key}]
  /\ UNCHANGED <<registry, centry, ckeys, cresult, seen>>
  /\ UNCHANGED csize
  /\ UNCHANGED nonCacheVars

\* addKeyToRegistry / removeKeyFromRegistry / clearCache / getCacheSize:
\* getCacheKeys issues AsyncStorage.getItem(CACHE_KEYS)
ReadRegistry(p) ==
  /\ \/ CacheStep(p, "add_read", "add_write")
     \/ CacheStep(p, "remove_read", "remove_write")
     \/ CacheStep(p, "clear_read", "clear_remove")
     \/ CacheStep(p, "size_read", "done")
  /\ ckeys' = [ckeys EXCEPT ![p] = registry]
  /\ csize' = [csize EXCEPT ![p] = IF cop[p] = "getCacheSize" THEN Len(registry) ELSE @]
  /\ UNCHANGED cresult
  /\ UNCHANGED <<store, registry, cop, ckey, centry, written, seen, snapshot>>
  /\ UNCHANGED nonCacheVars

\* addKeyToRegistry after getCacheKeys: the key is pushed and the list
\* written back unless the list read already includes it
AddKeyToRegistry(p) ==
  /\ CacheStep(p, "add_write", "done")
  /\ registry' = IF includes(ckeys[p], ckey[p]) THEN registry
                 ELSE Append(ckeys[p], ckey[p])
  /\ ckeys' = [ckeys EXCEPT ![p] = <<>>]
  /\ UNCHANGED <<store, cop, ckey, centry, cresult, written, seen, snapshot>>
  /\ UNCHANGED csize
  /\ UNCHANGED nonCacheVars

\* getCachedData(key) is called: AsyncStorage.getItem(prefixedKey) issued
GetCachedData(p, key) ==
  /\ CacheStep(p, "idle", "get_check")
  /\ cop' = [cop EXCEPT ![p] = "getCachedData"]
  /\ ckey' = [ckey EXCEPT ![p] = key]
  /\ centry' = [centry EXCEPT ![p] = store[key]]
  /\ seen' = [seen EXCEPT ![p] = written[key]]
  /\ UNCHANGED <<store, registry, ckeys, cresult, written, snapshot>>
  /\ UNCHANGED csize
  /\ UNCHANGED nonCacheVars

\* getCachedData after getItem: no entry gives null, a live entry its data;
\* an expired entry is removed (removeCacheItem issues removeItem) before null
\* is returned
GetCheck(p) ==
  /\ cpc[p] = "get_check"
  /\ IF centry[p] = NoEntry
     THEN /\ cpc' = [cpc EXCEPT ![p] = "done"]
          /\ cresult' = [cresult EXCEPT ![p] = Null]
          /\ UNCHANGED <<store, written>>
     ELSE IF IsExpired(TheEntry(centry[p]))
     THEN /\ cpc' = [cpc EXCEPT ![p] = "remove_read"]
          /\ cresult' = [cresult EXCEPT ![p] = Null]
          /\ store' = [store EXCEPT ![ckey[p]] = NoEntry]
          /\ written' = [written EXCEPT ![ckey[p]] = NoEntry]
     ELSE /\ cpc' = [cpc EXCEPT ![p] = "done"]
          /\ cresult' = [cresult EXCEPT ![p] = TheEntry(centry[p]).data]
          /\ UNCHANGED <<store, written>>
  /\ centry' = [centry EXCEPT ![p] = NoEntry]
  /\ seen' = [seen EXCEPT ![p] = NoEntry]
  /\ UNCHANGED <<registry, cop, ckey, ckeys, snapshot>>
  /\ UNCHANGED csize
  /\ UNCHANGED nonCacheVars

\* removeCacheItem(key) is called: AsyncStorage.removeItem(prefixedKey) issued
RemoveCacheItem(p, key) ==
  /\ CacheStep(p, "idle", "remove_read")
  /\ cop' = [cop EXCEPT ![p] = "removeCacheItem"]
  /\ ckey' = [ckey EXCEPT ![p] = key]
  /\ store' = [store EXCEPT ![key] = NoEntry]
  /\ written' = [written EXCEPT ![key] = NoEntry]
  /\ UNCHANGED <<registry, centry, ckeys, cresult, seen, snapshot>>
  /\ UNCHANGED csize
  /\ UNCHANGED nonCacheVars

\* removeKeyFromRegistry after getCacheKeys: the filtered list is written
RemoveKeyFromRegistry(p) ==
  /\ CacheStep(p, "remove_write", "done")
  /\ registry' = removeKey(ckeys[p], ckey[p])
  /\ ckeys' = [ckeys EXCEPT ![p] = <<>>]
  /\ UNCHANGED <<store, cop, ckey, centry, cresult, written, seen, snapshot>>
  /\ UNCHANGED csize
  /\ UNCHANGED nonCacheVars

\* clearCache() is called and awaits getCacheKeys
ClearCache(p) ==
  /\ CacheStep(p, "idle", "clear_read")
  /\ cop' = [cop EXCEPT ![p] = "clearCache"]
  /\ snapshot' = [snapshot EXCEPT ![p] = WrittenKeys]
  /\ UNCHANGED <<store, registry, ckey, centry, ckeys, cresult, written, seen>>
  /\ UNCHANGED csize
  /\ UNCHANGED nonCacheVars

\* clearCache after getCacheKeys: nothing to do for an empty list, else
\* AsyncStorage.multiRemove(prefixedKeys) is issued
ClearRemove(p) ==
  /\ cpc[p] = "clear_remove"
  /\ IF Len(ckeys[p]) = 0
     THEN /\ cpc' = [cpc EXCEPT ![p] = "done"]
          /\ UNCHANGED <<store, written>>
     ELSE /\ cpc' = [cpc EXCEPT ![p] = "clear_write"]
          /\ store' = [k \in CacheKeys |-> IF k \in SeqToSet(ckeys[p]) THEN NoEntry ELSE store[k]]
          /\ written' = [k \in CacheKeys |-> IF k \in SeqToSet(ckeys[p]) THEN NoEntry ELSE written[k]]
  /\ UNCHANGED <<registry, cop, ckey, centry, ckeys, cresult, seen, snapshot>>
  /\ UNCHANGED csize
  /\ UNCHANGED nonCacheVars

\* clearCache after multiRemove: AsyncStorage.setItem(CACHE_KEYS, [])
ClearRegistry(p) ==
  /\ CacheStep(p, "clear_write", "done")
  /\ registry' = <<>>
  /\ ckeys' = [ckeys EXCEPT ![p] = <<>>]
  /\ UNCHANGED <<store, cop, ckey, centry, cresult, written, seen, snapshot>>
  /\ UNCHANGED csize
  /\ UNCHANGED nonCacheVars

\* getCacheSize() is called and awaits getCacheKeys
GetCacheSize(p) ==
  /\ CacheStep(p, "idle", "size_read")
  /\ cop' = [cop EXCEPT ![p] = "getCacheSize"]
  /\ UNCHANGED <<store, registry, ckey, centry, ckeys, cresult, written, seen, snapshot>>
  /\ UNCHANGED csize
  /\ UNCHANGED nonCacheVars

\* a faulty variant: an entry exactly expiryMs old counts as invalid
IsValidBeforeExpiry(entry) == entry.age < entry.expiryMs

\* now - entry.timestamp <= entry.expiryMs
IsValid(entry) == entry.age <= entry.expiryMs

\* isCacheValid(key) is called: AsyncStorage.getItem(prefixedKey) is issued
IsCacheValid(p, key) ==
  /\ CacheStep(p, "idle", "valid_check")
  /\ cop' = [cop EXCEPT ![p] = "isCacheValid"]
  /\ ckey' = [ckey EXCEPT ![p] = key]
  /\ centry' = [centry EXCEPT ![p] = store[key]]
  /\ seen' = [seen EXCEPT ![p] = written[key]]
  /\ UNCHANGED <<store, registry, ckeys, cresult, written, snapshot>>
  /\ UNCHANGED csize
  /\ UNCHANGED nonCacheVars

\* isCacheValid after getItem: no entry gives false, otherwise the entry's
\* age is compared with its expiryMs; nothing is removed
ValidCheck(p) ==
  /\ CacheStep(p, "valid_check", "done")
  /\ cresult' = [cresult EXCEPT ![p] =
                   IF centry[p] = NoEntry THEN "false"
                   ELSE IF IsValid(TheEntry(centry[p])) THEN "true" ELSE "false"]
  /\ centry' = [centry EXCEPT ![p] = NoEntry]
  /\ seen' = [seen EXCEPT ![p] = NoEntry]
  /\ UNCHANGED <<store, registry, cop, ckey, ckeys, written, snapshot>>
  /\ UNCHANGED csize
  /\ UNCHANGED nonCacheVars

\* the call resumes after its last await and returns to its caller
CacheReturn(p) ==
  /\ CacheStep(p, "done", "idle")
  /\ cop' = [cop EXCEPT ![p] = "none"]
  /\ ckey' = [ckey EXCEPT ![p] = "none"]
  /\ centry' = [centry EXCEPT ![p] = NoEntry]
  /\ ckeys' = [ckeys EXCEPT ![p] = <<>>]
  /\ cresult' = [cresult EXCEPT ![p] = Null]
  /\ csize' = [csize EXCEPT ![p] = 0]
  /\ seen' = [seen EXCEPT ![p] = NoEntry]
  /\ snapshot' = [snapshot EXCEPT ![p] = {}]
  /\ UNCHANGED <<store, registry, written>>
  /\ UNCHANGED nonCacheVars

\* time passes (one expiry unit)
CacheTick ==
  /\ store' = [k \in CacheKeys |-> Older(store[k])]
  /\ written' = [k \in CacheKeys |-> Older(written[k])]
  /\ centry' = [p \in Procs |-> Older(centry[p])]
  /\ seen' = [p \in Procs |-> Older(seen[p])]
  /\ UNCHANGED <<registry, cpc, cop, ckey, ckeys, cresult, csize, snapshot>>
  /\ UNCHANGED nonCacheVars

CacheNext ==
  \/ \E p \in Procs, k \in CacheKeys, d \in CacheValues, e \in Expiries : CacheData(p, k, d, e)
  \/ \E p \in Procs : ReadRegistry(p)
  \/ \E p \in Procs : AddKeyToRegistry(p)
  \/ \E p \in Procs, k \in CacheKeys : GetCachedData(p, k)
  \/ \E p \in Procs : GetCheck(p)
  \/ \E p \in Procs, k \in CacheKeys : RemoveCacheItem(p, k)
  \/ \E p \in Procs : RemoveKeyFromRegistry(p)
  \/ \E p \in Procs : ClearCache(p)
  \/ \E p \in Procs : ClearRemove(p)
  \/ \E p \in Procs : ClearRegistry(p)
  \/ \E p \in Procs : GetCacheSize(p)
  \/ \E p \in Procs : CacheReturn(p)
  \/ CacheTick

CacheSpec == Init /\ [][CacheNext]_vars

\* ------------------------------------- FlightApiRepository: the calls
\* getNearbyAircraft(latitude, longitude, radiusKm) is called and awaits
\* getCachedData(cacheKey): an unexpired entry gives its data, an expired one
\* is removed and gives null, as does a missing one
GetNearbyAircraft(p, latitude) ==
  /\ rpc[p] = "idle"
  /\ rpc' = [rpc EXCEPT ![p] = "cache_read"]
  /\ rlat' = [rlat EXCEPT ![p] = latitude]
  /\ LET slot == rstore[NearbyCacheKey(latitude)]
     IN  /\ rcached' = [rcached EXCEPT ![p] =
                          IF slot = NoEntry \/ IsExpired(TheEntry(slot)) THEN NoEntry
                          ELSE {TheEntry(slot).data}]
         /\ rstore' = IF slot # NoEntry /\ IsExpired(TheEntry(slot))
                      THEN [rstore EXCEPT ![NearbyCacheKey(latitude)] = NoEntry]
                      ELSE rstore
         /\ rhit' = [rhit EXCEPT ![p] =
                       slot # NoEntry /\ TheEntry(slot).age <= NearbyAircraftCacheExpiry]
  /\ UNCHANGED <<rresult, rapi>>
  /\ UNCHANGED nonRepoVars

\* getNearbyAircraft after getCachedData: cached data is returned as it is;
\* otherwise apiService.getAircraftInArea is called with the bounding box
AfterCacheRead(p) ==
  /\ rpc[p] = "cache_read"
  /\ IF rcached[p] # NoEntry
     THEN /\ rresult' = [rresult EXCEPT ![p] = TheEntry(rcached[p])]
          /\ rpc' = [rpc EXCEPT ![p] = "done"]
          /\ UNCHANGED rapi
     ELSE /\ rpc' = [rpc EXCEPT ![p] = "fetching"]
          /\ rapi' = [rapi EXCEPT ![p] = TRUE]
          /\ UNCHANGED rresult
  /\ rcached' = [rcached EXCEPT ![p] = NoEntry]
  /\ UNCHANGED <<rstore, rlat, rhit>>
  /\ UNCHANGED nonRepoVars

\* the API answered: the flights are filtered by radius, cached under the
\* cache key for NEARBY_AIRCRAFT_CACHE_EXPIRY_MS and returned
ApiReturn(p, aircraftStates) ==
  /\ rpc[p] = "fetching"
  /\ LET filteredFlights == filterByRadius(aircraftStates, rlat[p], DetectionRadius)
     IN  /\ rstore' = [rstore EXCEPT ![NearbyCacheKey(rlat[p])] =
                         {CacheEntry(filteredFlights, NearbyAircraftCacheExpiry)}]
         /\ rresult' = [rresult EXCEPT ![p] = filteredFlights]
  /\ rpc' = [rpc EXCEPT ![p] = "done"]
  /\ UNCHANGED <<rlat, rcached, rhit, rapi>>
  /\ UNCHANGED nonRepoVars

\* the API call failed: getNearbyAircraft rejects with an ApiError
ApiFail(p) ==
  /\ rpc[p] = "fetching"
  /\ rpc' = [rpc EXCEPT ![p] = "idle"]
  /\ rhit' = [rhit EXCEPT ![p] = FALSE]
  /\ rapi' = [rapi EXCEPT ![p] = FALSE]
  /\ rlat' = [rlat EXCEPT ![p] = 1]
  /\ UNCHANGED <<rstore, rcached, rresult>>
  /\ UNCHANGED nonRepoVars

\* the caller takes the flights
RepoReturn(p) ==
  /\ rpc[p] = "done"
  /\ rpc' = [rpc EXCEPT ![p] = "idle"]
  /\ rresult' = [rresult EXCEPT ![p] = {}]
  /\ rhit' = [rhit EXCEPT ![p] = FALSE]
  /\ rapi' = [rapi EXCEPT ![p] = FALSE]
  /\ rlat' = [rlat EXCEPT ![p] = 1]
  /\ UNCHANGED <<rstore, rcached>>
  /\ UNCHANGED nonRepoVars

\* 30 seconds pass
RepoTick ==
  /\ rstore' = [k \in NearbyCacheKeys |-> Older(rstore[k])]
  /\ UNCHANGED <<rpc, rlat, rcached, rresult, rhit, rapi>>
  /\ UNCHANGED nonRepoVars

\* The repository as the detection cycle uses it: one call after the other,
\* from wherever the device is.
RepoNext ==
  \/ \E lat \in Latitudes : GetNearbyAircraft("bg", lat)
  \/ AfterCacheRead("bg")
  \/ \E a \in ApiAnswers : ApiReturn("bg", a)
  \/ ApiFail("bg")
  \/ RepoReturn("bg")
  \/ RepoTick

RepoSpec == Init /\ [][RepoNext]_vars

\* The cache under validity checks and reads by two callers.
ValidityNext ==
  \/ \E p \in Procs, k \in CacheKeys, d \in CacheValues, e \in Expiries : CacheData(p, k, d, e)
  \/ \E p \in Procs : ReadRegistry(p)
  \/ \E p \in Procs : AddKeyToRegistry(p)
  \/ \E p \in Procs, k \in CacheKeys : IsCacheValid(p, k)
  \/ \E p \in Procs : ValidCheck(p)
  \/ \E p \in Procs, k \in CacheKeys : GetCachedData(p, k)
  \/ \E p \in Procs : GetCheck(p)
  \/ \E p \in Procs : RemoveKeyFromRegistry(p)
  \/ \E p \in Procs : CacheReturn(p)
  \/ CacheTick

ValiditySpec == Init /\ [][ValidityNext]_vars

\* ----------------------------------------------------- SettingsRepository
\* Every StorageService call takes effect when it is issued; the caller
\* resumes in a later step.

\* the head of an update: getSettings issues getData('app_settings')
BeginUpdate(p, op, arg) ==
  /\ spc[p] = "idle"
  /\ spc' = [spc EXCEPT ![p] = "get"]
  /\ sop' = [sop EXCEPT ![p] = op]
  /\ sarg' = [sarg EXCEPT ![p] = arg]
  /\ sread' = [sread EXCEPT ![p] = settings]
  /\ UNCHANGED <<settings, lastRadius, lastLocation>>
  /\ UNCHANGED nonSettingsVars

\* updateDetectionRadius(radiusKm) is called
UpdateDetectionRadius(p, radiusKm) == BeginUpdate(p, "radius", radiusKm)

\* updateLastKnownLocation(location) is called
UpdateLastKnownLocation(p, location) == BeginUpdate(p, "location", location)

\* getData resolved.  With stored settings getSettings returns them and the
\* update stores its changed copy; with none getSettings first stores the
\* default settings
GetSettingsResume(p) ==
  /\ spc[p] = "get"
  /\ IF sread[p] # NoEntry
     THEN /\ settings' = {updatedSettings(sop[p], TheEntry(sread[p]), sarg[p])}
          /\ spc' = [spc EXCEPT ![p] = "save"]
          /\ UNCHANGED sread
     ELSE /\ settings' = {defaultSettings}
          /\ sread' = [sread EXCEPT ![p] = {defaultSettings}]
          /\ spc' = [spc EXCEPT ![p] = "default_save"]
  /\ UNCHANGED <<sop, sarg, lastRadius, lastLocation>>
  /\ UNCHANGED nonSettingsVars

\* the default settings are stored: getSettings returns them and the update
\* stores its changed copy
DefaultSaved(p) ==
  /\ spc[p] = "default_save"
  /\ settings' = {updatedSettings(sop[p], TheEntry(sread[p]), sarg[p])}
  /\ spc' = [spc EXCEPT ![p] = "save"]
  /\ UNCHANGED <<sop, sarg, sread, lastRadius, lastLocation>>
  /\ UNCHANGED nonSettingsVars

\* storeData resolved: the update is complete
SettingsSaved(p) ==
  /\ spc[p] = "save"
  /\ spc' = [spc EXCEPT ![p] = "idle"]
  /\ lastRadius' = IF sop[p] = "radius" THEN {sarg[p]} ELSE lastRadius
  /\ lastLocation' = IF sop[p] = "location" THEN {sarg[p]} ELSE lastLocation
  /\ sop' = [sop EXCEPT ![p] = "none"]
  /\ sarg' = [sarg EXCEPT ![p] = 0]
  /\ sread' = [sread EXCEPT ![p] = NoEntry]
  /\ UNCHANGED settings
  /\ UNCHANGED nonSettingsVars

\* getData rejected: the update throws without storing anything
SettingsFail(p) ==
  /\ spc[p] = "get"
  /\ spc' = [spc EXCEPT ![p] = "idle"]
  /\ sop' = [sop EXCEPT ![p] = "none"]
  /\ sarg' = [sarg EXCEPT ![p] = 0]
  /\ sread' = [sread EXCEPT ![p] = NoEntry]
  /\ UNCHANGED <<settings, lastRadius, lastLocation>>
  /\ UNCHANGED nonSettingsVars

\* The settings screen changes the radius while the location service saves
\* the positions it receives (saveLastKnownLocation is not awaited).
SettingsNext ==
  \/ \E radiusKm \in Radii : UpdateDetectionRadius("ui", radiusKm)
  \/ \E location \in Locations : UpdateLastKnownLocation("bg", location)
  \/ \E p \in Procs : GetSettingsResume(p)
  \/ \E p \in Procs : DefaultSaved(p)
  \/ \E p \in Procs : SettingsSaved(p)
  \/ \E p \in Procs : SettingsFail(p)

SettingsSpec == Init /\ [][SettingsNext]_vars

\* ------------------------------------------- LocationManager, LocationService
\* The calls are synchronous: each is one step.

\* the service and Geolocation after an operation
SetService(st) ==
  /\ watchId' = st.watchId
  /\ watches' = st.watches
  /\ nativeCalls' = st.calls
  /\ clearArg' = st.cleared
  /\ nativeFailed' = st.failed

\* LocationManager.registerLocationCallback(callback); the manager's
\* startLocationUpdates sets isUpdating once the service call has returned
RegisterLocationCallback(callback, id, clearOk, watchOk) ==
  /\ Len(callbacks) < MaxCallbacks
  /\ id \notin watches
  /\ callbacks' = Append(callbacks, callback)
  /\ IF ShouldStart(callbacks', isUpdating)
     THEN /\ SetService(ServiceStartLocationUpdates(ServiceState, id, clearOk, watchOk))
          /\ isUpdating' = TRUE
     ELSE /\ SetService(ServiceState)
          /\ UNCHANGED isUpdating
  /\ UNCHANGED received
  /\ UNCHANGED nonLocationVars

\* LocationManager.unregisterLocationCallback(callback); the manager's
\* stopLocationUpdates clears isUpdating once the service call has returned
UnregisterLocationCallback(callback, clearOk) ==
  /\ callbacks' = SelectSeq(callbacks, LAMBDA cb : cb # callback)
  /\ IF ShouldStop(callbacks', isUpdating)
     THEN /\ SetService(ServiceStopLocationUpdates(ServiceState, clearOk))
          /\ isUpdating' = FALSE
     ELSE /\ SetService(ServiceState)
          /\ UNCHANGED isUpdating
  /\ UNCHANGED received
  /\ UNCHANGED nonLocationVars

\* LocationService.startLocationUpdates(callback) is called
StartLocationUpdates(id, clearOk, watchOk) ==
  /\ id \notin watches
  /\ SetService(ServiceStartLocationUpdates(ServiceState, id, clearOk, watchOk))
  /\ UNCHANGED <<callbacks, isUpdating, received>>
  /\ UNCHANGED nonLocationVars

\* LocationService.stopLocationUpdates() is called
StopLocationUpdates(clearOk) ==
  /\ SetService(ServiceStopLocationUpdates(ServiceState, clearOk))
  /\ UNCHANGED <<callbacks, isUpdating, received>>
  /\ UNCHANGED nonLocationVars

\* an active watch reports a position: the service hands it to
\* saveLastKnownLocation and to the manager's handleLocationUpdate, which
\* calls every registered callback
PositionUpdate(id, location) ==
  /\ id \in watches
  /\ received' = [cb \in LocationCallbacks |->
                    IF cb \in {callbacks[i] : i \in 1..Len(callbacks)}
                    THEN {location} ELSE received[cb]]
  /\ SetService(ServiceState)
  /\ UNCHANGED <<callbacks, isUpdating>>
  /\ UNCHANGED nonLocationVars

\* The manager as the application uses it: callbacks come and go.
LocationManagerNext ==
  \/ \E callback \in LocationCallbacks, id \in WatchIds, clearOk, watchOk \in BOOLEAN :
       RegisterLocationCallback(callback, id, clearOk, watchOk)
  \/ \E callback \in LocationCallbacks, clearOk \in BOOLEAN :
       UnregisterLocationCallback(callback, clearOk)
  \/ \E id \in WatchIds, location \in Locations : PositionUpdate(id, location)

LocationManagerSpec == Init /\ [][LocationManagerNext]_vars

\* The service called directly.
LocationServiceNext ==
  \/ \E id \in WatchIds, clearOk, watchOk \in BOOLEAN :
       StartLocationUpdates(id, clearOk, watchOk)
  \/ \E clearOk \in BOOLEAN : StopLocationUpdates(clearOk)
  \/ \E id \in WatchIds, location \in Locations : PositionUpdate(id, location)

LocationServiceSpec == Init /\ [][LocationServiceNext]_vars

\* ---------------------------------------------------- AircraftImageService
\* A call of RNFS acts on the file system when it settles; the caller goes on
\* in the same step.

ImageInfo(p) == TheEntry(lookupAircraftTypeInfo(itype[p]))

\* the image id the call is working on
CurrentImageId(p) ==
  IF ipart[p] = "own" THEN ImageInfo(p).imageIds[iidx[p]]
  ELSE FallbackImageIds(ImageInfo(p))[1]

\* the call returns path
ImageDone(p, path) ==
  /\ ipc' = [ipc EXCEPT ![p] = "done"]
  /\ ipath' = [ipath EXCEPT ![p] = path]
  /\ ipart' = [ipart EXCEPT ![p] = "none"]
  /\ iidx' = [iidx EXCEPT ![p] = 0]
  /\ isrc' = [isrc EXCEPT ![p] = 0]

\* the image id in hand gave nothing: the next id of the type, then the
\* category's default image, then a null path
NextImage(p) ==
  IF ipart[p] = "own" /\ iidx[p] < Len(ImageInfo(p).imageIds)
  THEN /\ ipc' = [ipc EXCEPT ![p] = "exists"]
       /\ iidx' = [iidx EXCEPT ![p] = @ + 1]
       /\ isrc' = [isrc EXCEPT ![p] = 0]
       /\ UNCHANGED <<ipart, ipath>>
  ELSE IF ipart[p] = "own" /\ Len(FallbackImageIds(ImageInfo(p))) > 0
  THEN /\ ipc' = [ipc EXCEPT ![p] = "exists"]
       /\ ipart' = [ipart EXCEPT ![p] = "fallback"]
       /\ iidx' = [iidx EXCEPT ![p] = 1]
       /\ isrc' = [isrc EXCEPT ![p] = 0]
       /\ UNCHANGED ipath
  ELSE ImageDone(p, {})

\* getImageForAircraftType(aircraftType) is called: the memory cache, the
\* type lookup, and the first RNFS.exists
GetImageForAircraftType(p, aircraftType) ==
  /\ ipc[p] = "idle"
  /\ itype' = [itype EXCEPT ![p] = aircraftType]
  /\ ihit' = [ihit EXCEPT ![p] = memoryCache[aircraftType] # {}]
  /\ IF memoryCache[aircraftType] # {}
     THEN ImageDone(p, memoryCache[aircraftType])
     ELSE IF lookupAircraftTypeInfo(aircraftType) = {}
     THEN ImageDone(p, {})
     ELSE IF Len(TheEntry(lookupAircraftTypeInfo(aircraftType)).imageIds) = 0
     THEN ImageDone(p, {})
     ELSE /\ ipc' = [ipc EXCEPT ![p] = "exists"]
          /\ ipart' = [ipart EXCEPT ![p] = "own"]
          /\ iidx' = [iidx EXCEPT ![p] = 1]
          /\ UNCHANGED <<isrc, ipath>>
  /\ UNCHANGED <<memoryCache, files, ifs, ifailed, ichecked, cacheAge>>
  /\ UNCHANGED imageCallVars
  /\ UNCHANGED nonImageVars

\* RNFS.exists(localPath) settled: with the file there the path is cached and
\* returned; without it the download from the first source begins; a
\* rejection is caught and the call moves on to the next image
ExistsResume(p, ok) ==
  /\ ipc[p] = "exists"
  /\ ifs' = [ifs EXCEPT ![p] = TRUE]
  /\ LET imageId == CurrentImageId(p)
     IN  IF ~ok
         THEN /\ ifailed' = [ifailed EXCEPT ![p] = @ \cup {imageId}]
              /\ NextImage(p)
              /\ UNCHANGED <<memoryCache, ichecked, cacheAge>>
         ELSE IF imageId \in files
         THEN /\ memoryCache' = [memoryCache EXCEPT ![itype[p]] = {imageId}]
              /\ cacheAge' = [cacheAge EXCEPT ![itype[p]] = 0]
              /\ ImageDone(p, {imageId})
              /\ UNCHANGED <<ifailed, ichecked>>
         ELSE /\ ichecked' = [ichecked EXCEPT ![p] = @ \cup {imageId}]
              /\ ipc' = [ipc EXCEPT ![p] = "download"]
              /\ isrc' = [isrc EXCEPT ![p] = 1]
              /\ UNCHANGED <<memoryCache, ipart, iidx, ipath, ifailed, cacheAge>>
  /\ UNCHANGED <<files, itype, ihit>>
  /\ UNCHANGED imageCallVars
  /\ UNCHANGED nonImageVars

\* the copy of downloadImageFromSources settled: the file is there, cached
\* and returned, or the next source is tried, or, after the last source, the
\* next image
DownloadResume(p, ok) ==
  /\ ipc[p] = "download"
  /\ LET imageId == CurrentImageId(p)
     IN  IF ok
         THEN /\ files' = files \cup {imageId}
              /\ memoryCache' = [memoryCache EXCEPT ![itype[p]] = {imageId}]
              /\ cacheAge' = [cacheAge EXCEPT ![itype[p]] = 0]
              /\ ImageDone(p, {imageId})
              /\ UNCHANGED ifailed
         ELSE IF isrc[p] < NumImageSources
         THEN /\ isrc' = [isrc EXCEPT ![p] = @ + 1]
              /\ UNCHANGED <<memoryCache, files, ipc, ipart, iidx, ipath, ifailed, cacheAge>>
         ELSE /\ ifailed' = [ifailed EXCEPT ![p] = @ \cup {imageId}]
              /\ NextImage(p)
              /\ UNCHANGED <<memoryCache, files, cacheAge>>
  /\ UNCHANGED <<itype, ihit, ifs, ichecked>>
  /\ UNCHANGED imageCallVars
  /\ UNCHANGED nonImageVars

\* the call's promise is consumed by its caller
ImageReturn(p) ==
  /\ ipc[p] = "done"
  /\ ipc' = [ipc EXCEPT ![p] = "idle"]
  /\ itype' = [itype EXCEPT ![p] = "Unknown"]
  /\ ipath' = [ipath EXCEPT ![p] = {}]
  /\ ihit' = [ihit EXCEPT ![p] = FALSE]
  /\ ifs' = [ifs EXCEPT ![p] = FALSE]
  /\ ifailed' = [ifailed EXCEPT ![p] = {}]
  /\ ichecked' = [ichecked EXCEPT ![p] = {}]
  /\ UNCHANGED <<memoryCache, files, ipart, iidx, isrc, cacheAge>>
  /\ UNCHANGED imageCallVars
  /\ UNCHANGED nonImageVars

\* clearImageCache(): the memory cache is cleared and the cache directory is
\* unlinked (a failure of unlink is ignored) and made again
ClearImageCache(unlinkOk) ==
  /\ memoryCache' = [t \in ImageTypes |-> {}]
  /\ cacheAge' = [t \in ImageTypes |-> 0]
  /\ files' = IF unlinkOk THEN {} ELSE files
  /\ UNCHANGED <<ipc, itype, ipart, iidx, isrc, ipath, ihit, ifs, ifailed, ichecked>>
  /\ UNCHANGED imageCallVars
  /\ UNCHANGED nonImageVars

\* The image service under calls that overlap.
ImageNext ==
  \/ \E p \in Procs, aircraftType \in ImageTypes : GetImageForAircraftType(p, aircraftType)
  \/ \E p \in Procs, ok \in BOOLEAN : ExistsResume(p, ok)
  \/ \E p \in Procs, ok \in BOOLEAN : DownloadResume(p, ok)
  \/ \E p \in Procs : ImageReturn(p)
  \/ \E unlinkOk \in BOOLEAN : ClearImageCache(unlinkOk)

ImageSpec == Init /\ [][ImageNext]_vars

\* The image service as one caller uses it: one call after the other.
SingleImageNext ==
  \/ \E aircraftType \in ImageTypes : GetImageForAircraftType("bg", aircraftType)
  \/ \E ok \in BOOLEAN : ExistsResume("bg", ok)
  \/ \E ok \in BOOLEAN : DownloadResume("bg", ok)
  \/ ImageReturn("bg")
  \/ \E unlinkOk \in BOOLEAN : ClearImageCache(unlinkOk)

SingleImageSpec == Init /\ [][SingleImageNext]_vars

\* Time passes: the entries of the memory cache grow older.  Nothing of the
\* image service reads a clock; an age that has passed every expiry the TTL
\* cache is configured with stays there.
ImageTick ==
  /\ \E t \in ImageTypes : memoryCache[t] # {} /\ cacheAge[t] <= MaxExpiry
  /\ cacheAge' = [t \in ImageTypes |->
                    IF memoryCache[t] # {} /\ cacheAge[t] <= MaxExpiry
                    THEN cacheAge[t] + 1 ELSE cacheAge[t]]
  /\ UNCHANGED <<memoryCache, files, ipc, itype, ipart, iidx, isrc, ipath,
                 ihit, ifs, ifailed, ichecked>>
  /\ UNCHANGED imageCallVars
  /\ UNCHANGED nonImageVars

\* The image service as one caller uses it over time.
TimedImageNext ==
  \/ SingleImageNext
  \/ ImageTick

TimedImageSpec == Init /\ [][TimedImageNext]_vars

\* ------------------------------------------------- DeepLinkHandler actions
\* registerNavigationFunction(navigateFunction)
RegisterNavigationFunction ==
  /\ navigateFunction' = "navigate"
  /\ UNCHANGED <<navRequest, navOutcome>>
  /\ UNCHANGED nonNavVars

\* navigateToScreen(config); nothing is awaited inside, the call runs to its
\* return in one step
NavigateToScreen(type, params, throws) ==
  /\ navRequest' = [op |-> "navigateToScreen", type |-> type, params |-> params,
                    registered |-> navigateFunction # Null, throws |-> throws]
  /\ navOutcome' = navigateToScreen(navigateFunction,
                                    [type |-> type, params |-> params], throws)
  /\ UNCHANGED navigateFunction
  /\ UNCHANGED nonNavVars

\* handleNotificationAction(action) of the notification service
HandleNotificationAction(identifier, data, throws) ==
  /\ navRequest' = [op |-> "handleNotificationAction", type |-> identifier,
                    params |-> data, registered |-> navigateFunction # Null,
                    throws |-> throws]
  /\ navOutcome' = handleNotificationAction(navigateFunction, identifier, data, throws)
  /\ UNCHANGED navigateFunction
  /\ UNCHANGED nonNavVars

NavigationNext ==
  \/ RegisterNavigationFunction
  \/ \E type \in DeepLinkTypes \cup {UnknownType}, params \in OptionalParams,
        throws \in BOOLEAN : NavigateToScreen(type, params, throws)
  \/ \E identifier \in NotificationActionTypes \cup {UnknownType},
        data \in OptionalParams, throws \in BOOLEAN :
       HandleNotificationAction(identifier, data, throws)

NavigationSpec == Init /\ [][NavigationNext]_vars

\* ---------------------------------------------- PermissionManager actions
\* requestBackgroundLocationPermission() is called: on iOS the request of
\* LOCATION_ALWAYS is issued, on Android the check of the foreground
\* permission, elsewhere false is returned
RequestBackgroundLocationPermission(os) ==
  /\ permCall.pc = "idle"
  /\ permCall' =
       CASE os = "ios" ->
              [NoPermCall EXCEPT !.pc = "request", !.os = os,
                                 !.requested = <<LocationAlways>>]
         [] os = "android" -> [NoPermCall EXCEPT !.pc = "check", !.os = os]
         [] OTHER -> [NoPermCall EXCEPT !.pc = "done", !.os = os]
  /\ UNCHANGED permStatus
  /\ UNCHANGED nonPermVars

\* check(ACCESS_FINE_LOCATION) settled: granted, the background permission
\* is requested; otherwise false is returned
CheckResume(rejected) ==
  /\ permCall.pc = "check"
  /\ LET status == permStatus[AccessFineLocation]
         checked == IF rejected THEN "rejected" ELSE status
     IN  permCall' =
           IF ForegroundGranted(status, rejected)
           THEN [permCall EXCEPT !.pc = "request", !.checked = checked,
                                 !.requested = @ \o <<AccessBackgroundLocation>>]
           ELSE [permCall EXCEPT !.pc = "done", !.checked = checked]
  /\ UNCHANGED permStatus
  /\ UNCHANGED nonPermVars

\* request(permission) settled with the user's answer, or was rejected
RequestResume(answer, rejected) ==
  /\ permCall.pc = "request"
  /\ LET permission == permCall.requested[Len(permCall.requested)]
     IN  IF rejected
         THEN /\ permCall' = [permCall EXCEPT !.pc = "done"]
              /\ UNCHANGED permStatus
         ELSE /\ permCall' = [permCall EXCEPT !.pc = "done",
                                              !.result = (answer = "granted")]
              /\ permStatus' = [permStatus EXCEPT ![permission] = answer]
  /\ UNCHANGED nonPermVars

\* the call's promise is consumed by its caller
PermissionReturn ==
  /\ permCall.pc = "done"
  /\ permCall' = NoPermCall
  /\ UNCHANGED permStatus
  /\ UNCHANGED nonPermVars

\* the user changes a permission in the settings of the system
SystemSettingsChange(permission, status) ==
  /\ permStatus[permission] # status
  /\ permStatus' = [permStatus EXCEPT ![permission] = status]
  /\ UNCHANGED permCall
  /\ UNCHANGED nonPermVars

PermissionNext ==
  \/ \E os \in Platforms : RequestBackgroundLocationPermission(os)
  \/ \E rejected \in BOOLEAN : CheckResume(rejected)
  \/ \E answer \in PermissionStatuses, rejected \in BOOLEAN :
       RequestResume(answer, rejected)
  \/ PermissionReturn
  \/ \E permission \in Permissions, status \in PermissionStatuses :
       SystemSettingsChange(permission, status)

PermissionSpec == Init /\ [][PermissionNext]_vars

\* ---------------------------------------------- background task actions
\* BackgroundService.getInstance(settingsRepository), first call: the
\* constructor registers the location task and the flight check placeholder
CreateBackgroundService ==
  /\ "BackgroundService" \notin instances
  /\ instances' = instances \cup {"BackgroundService"}
  /\ tasks' = registerTask(registerTask(tasks, LocationTaskId, LocationTask),
                           FlightCheckTaskId, PlaceholderTask)
  /\ UNCHANGED <<initialized, scheduled, detectionActive, bcall, lastRun>>
  /\ UNCHANGED taskManagerVars
  /\ UNCHANGED nonBackgroundVars

\* FlightDetectionManager.getInstance(...), first call: registerDetectionTask
CreateFlightDetectionManager ==
  /\ "FlightDetectionManager" \notin instances
  /\ instances' = instances \cup {"FlightDetectionManager"}
  /\ tasks' = registerTask(tasks, FlightCheckTaskId, DetectionTask)
  /\ UNCHANGED <<initialized, scheduled, detectionActive, bcall, lastRun>>
  /\ UNCHANGED taskManagerVars
  /\ UNCHANGED nonBackgroundVars

\* scheduleFlightCheck() begins: initialize() configures BackgroundFetch
\* unless that was done
BeginSchedule(op) ==
  bcall' = [op |-> op, pc |-> IF initialized THEN "schedule" ELSE "configure",
            result |-> FALSE]

\* BackgroundService.startBackgroundFlightCheck(): setupFlightCheckTask,
\* then scheduleFlightCheck
StartBackgroundFlightCheck ==
  /\ "BackgroundService" \in instances
  /\ bcall.pc = "idle"
  /\ tasks' = registerTask(tasks, FlightCheckTaskId, PlaceholderTask)
  /\ BeginSchedule("startBackgroundFlightCheck")
  /\ UNCHANGED <<instances, initialized, scheduled, detectionActive, lastRun>>
  /\ UNCHANGED taskManagerVars
  /\ UNCHANGED nonBackgroundVars

\* FlightDetectionManager.startBackgroundDetection()
StartBackgroundDetection ==
  /\ "FlightDetectionManager" \in instances
  /\ bcall.pc = "idle"
  /\ BeginSchedule("startBackgroundDetection")
  /\ UNCHANGED <<instances, tasks, initialized, scheduled, detectionActive, lastRun>>
  /\ UNCHANGED taskManagerVars
  /\ UNCHANGED nonBackgroundVars

\* BackgroundFetch.configure settled; a rejection is thrown on by initialize
\* and caught by scheduleFlightCheck, which returns false
ConfigureResume(ok) ==
  /\ bcall.pc = "configure"
  /\ initialized' = (initialized \/ ok)
  /\ bcall' = [bcall EXCEPT !.pc = IF ok THEN "schedule" ELSE "done"]
  /\ UNCHANGED <<instances, tasks, scheduled, detectionActive, lastRun>>
  /\ UNCHANGED taskManagerVars
  /\ UNCHANGED nonBackgroundVars

\* BackgroundFetch.scheduleTask settled: with STATUS_AVAILABLE the task is
\* scheduled and true is returned, and startBackgroundDetection sets
\* detectionActive; any other status or a rejection gives false
ScheduleResume(ok) ==
  /\ bcall.pc = "schedule"
  /\ scheduled' = IF ok THEN scheduled \cup {FlightCheckTaskId} ELSE scheduled
  /\ detectionActive' =
       IF ok /\ bcall.op = "startBackgroundDetection" THEN TRUE ELSE detectionActive
  /\ bcall' = [bcall EXCEPT !.pc = "done", !.result = ok]
  /\ UNCHANGED <<instances, tasks, initialized, lastRun>>
  /\ UNCHANGED taskManagerVars
  /\ UNCHANGED nonBackgroundVars

\* FlightDetectionManager.stopBackgroundDetection(): BackgroundTaskManager
\* has no method cancelFlightCheck, the call of it throws, the exception is
\* caught and the assignment after it is not reached
StopBackgroundDetection ==
  /\ "FlightDetectionManager" \in instances
  /\ bcall.pc = "idle"
  /\ bcall' = [op |-> "stopBackgroundDetection", pc |-> "done", result |-> FALSE]
  /\ UNCHANGED <<instances, tasks, initialized, scheduled, detectionActive, lastRun>>
  /\ UNCHANGED taskManagerVars
  /\ UNCHANGED nonBackgroundVars

\* the call's promise is consumed by its caller
BackgroundReturn ==
  /\ bcall.pc = "done"
  /\ bcall' = NoBackgroundCall
  /\ UNCHANGED <<instances, tasks, initialized, scheduled, detectionActive, lastRun>>
  /\ UNCHANGED taskManagerVars
  /\ UNCHANGED nonBackgroundVars

\* BackgroundFetch executes the flight check: the callback given to
\* configure runs the task found under the id
ExecuteFlightCheck ==
  /\ initialized
  /\ FlightCheckTaskId \in scheduled
  /\ lastRun' = [task |-> tasks[FlightCheckTaskId],
                 managerCreated |-> "FlightDetectionManager" \in instances]
  /\ UNCHANGED <<instances, tasks, initialized, scheduled, detectionActive, bcall>>
  /\ UNCHANGED taskManagerVars
  /\ UNCHANGED nonBackgroundVars

BackgroundNext ==
  \/ CreateBackgroundService
  \/ CreateFlightDetectionManager
  \/ StartBackgroundFlightCheck
  \/ StartBackgroundDetection
  \/ \E ok \in BOOLEAN : ConfigureResume(ok)
  \/ \E ok \in BOOLEAN : ScheduleResume(ok)
  \/ StopBackgroundDetection
  \/ BackgroundReturn
  \/ ExecuteFlightCheck

BackgroundSpec == Init /\ [][BackgroundNext]_vars

\* ----------------------------------------------- FlightRepository actions
\* performDetection found detectedFlights (not empty) and calls
\* flightRepository.saveFlights(detectedFlights)
SaveFlights(detectedFlights) ==
  /\ hcall.pc = "idle"
  /\ hcall' = [op |-> "saveFlights", pc |-> "store", flights |-> detectedFlights]
  /\ UNCHANGED <<flightStore, savedFlights>>
  /\ UNCHANGED nonHistoryVars

\* AsyncStorage.setItem settled; a rejection is thrown on as 'Failed to save
\* flights' and ends performDetection
StoreResume(ok) ==
  /\ hcall.pc = "store"
  /\ hcall' = [hcall EXCEPT !.pc = IF ok THEN "done" ELSE "failed"]
  /\ flightStore' = IF ok THEN StoredBySave(flightStore, hcall.flights) ELSE flightStore
  /\ savedFlights' = IF ok THEN savedFlights \cup Ids(hcall.flights) ELSE savedFlights
  /\ UNCHANGED nonHistoryVars

\* getAllFlights() is called
GetAllFlights ==
  /\ hcall.pc = "idle"
  /\ hcall' = [op |-> "getAllFlights", pc |-> "read", flights |-> <<>>]
  /\ UNCHANGED <<flightStore, savedFlights>>
  /\ UNCHANGED nonHistoryVars

\* AsyncStorage.getItem settled; a rejection is thrown on as 'Failed to get
\* all flights'
ReadResume(ok) ==
  /\ hcall.pc = "read"
  /\ hcall' = IF ok THEN [hcall EXCEPT !.pc = "done", !.flights = AllFlights(flightStore)]
              ELSE [hcall EXCEPT !.pc = "failed"]
  /\ UNCHANGED <<flightStore, savedFlights>>
  /\ UNCHANGED nonHistoryVars

\* deleteAllFlights() is called
DeleteAllFlights ==
  /\ hcall.pc = "idle"
  /\ hcall' = [op |-> "deleteAllFlights", pc |-> "remove", flights |-> <<>>]
  /\ UNCHANGED <<flightStore, savedFlights>>
  /\ UNCHANGED nonHistoryVars

\* AsyncStorage.removeItem settled
RemoveResume(ok) ==
  /\ hcall.pc = "remove"
  /\ hcall' = [hcall EXCEPT !.pc = IF ok THEN "done" ELSE "failed"]
  /\ flightStore' = IF ok THEN {} ELSE flightStore
  /\ savedFlights' = IF ok THEN {} ELSE savedFlights
  /\ UNCHANGED nonHistoryVars

\* the call's promise is consumed by its caller
RepositoryReturn ==
  /\ hcall.pc \in {"done", "failed"}
  /\ hcall' = NoRepositoryCall
  /\ UNCHANGED <<flightStore, savedFlights>>
  /\ UNCHANGED nonHistoryVars

HistoryNext ==
  \/ \E detectedFlights \in DetectedFlights : SaveFlights(detectedFlights)
  \/ \E ok \in BOOLEAN : StoreResume(ok)
  \/ GetAllFlights
  \/ \E ok \in BOOLEAN : ReadResume(ok)
  \/ DeleteAllFlights
  \/ \E ok \in BOOLEAN : RemoveResume(ok)
  \/ RepositoryReturn

HistorySpec == Init /\ [][HistoryNext]_vars

\* notifyFlightsDetected(flights) is called with a list of detected flights,
\* which the call keeps as its argument
NotifyBatch(p, flights) ==
  /\ pc[p] = "idle"
  /\ Len(flights) > 0
  /\ kind' = [kind EXCEPT ![p] = "cycle"]
  /\ newDetections' = [newDetections EXCEPT ![p] = flights]
  /\ BeginNotify(p, SelectFlightsToNotify(flights))
  /\ UNCHANGED <<detVars, mgrVars, svcVars, prevPollIds, owed, live, hold, postAge>>
  /\ UNCHANGED nonPipelineVars

\* The notification manager given batches by one caller, one call after the
\* other.
BatchNext ==
  \/ \E flights \in BatchPolls : NotifyBatch("bg", flights)
  \/ \E ok \in BOOLEAN : ShowFlightNotification("bg", ok)
  \/ AfterPost("bg")
  \/ ResumeNotify("bg")
  \/ Return("bg")
  \/ \E t \in timers : TimerFire(t)
  \/ Tick

BatchSpec == Init /\ [][BatchNext]_vars

\* NotificationManager.initialize() is called and awaits requestPermissions
InitializeManager ==
  /\ managerInit = "none"
  /\ managerInit' = "request"
  /\ UNCHANGED <<detVars, notificationsEnabled, lastNotificationAge, svcVars,
                 callVars, histVars>>
  /\ UNCHANGED nonPipelineVars

\* requestPermissions settled (a rejection inside it is caught there and
\* gives false): without the permission notifications are disabled and
\* initialize returns, with it setupNotifications is awaited
PermissionsResume(permissionsGranted) ==
  /\ managerInit = "request"
  /\ notificationsEnabled' = EnabledAfterRequest(notificationsEnabled, permissionsGranted)
  /\ managerInit' = IF permissionsGranted THEN "setup" ELSE "denied"
  /\ UNCHANGED <<detVars, lastNotificationAge, svcVars, callVars, histVars>>
  /\ UNCHANGED nonPipelineVars

\* setupNotifications settled; its rejection is caught and logged
SetupResume(ok) ==
  /\ managerInit = "setup"
  /\ managerInit' = IF ok THEN "initialized" ELSE "failed"
  /\ UNCHANGED <<detVars, notificationsEnabled, lastNotificationAge, svcVars,
                 callVars, histVars>>
  /\ UNCHANGED nonPipelineVars

\* The notification manager from its initialisation on, with one caller.
StartupNext ==
  \/ InitializeManager
  \/ \E permissionsGranted \in BOOLEAN : PermissionsResume(permissionsGranted)
  \/ \E ok \in BOOLEAN : SetupResume(ok)
  \/ \E flights \in OverlapPolls : CallNotifyFlightsDetected("bg", flights)
  \/ \E f \in OverlapFlights : NotifyFlightDetected("bg", f)
  \/ \E ok \in BOOLEAN : ShowFlightNotification("bg", ok)
  \/ AfterPost("bg")
  \/ ResumeNotify("bg")
  \/ Return("bg")
  \/ \E t \in timers : TimerFire(t)
  \/ Tick

StartupSpec == Init /\ [][StartupNext]_vars

\* --- FlightApiService
\* apiClient.get: the request interceptor runs.  A request that is not
\* delayed sets lastRequestTime and leaves in the same turn; a delayed one
\* awaits its timer.
RequestInterceptor(p, op) ==
  /\ apiCalls[p].pc = "idle"
  /\ LET delay == delayMs(lastRequestAge)
     IN  IF delay > 0
         THEN /\ apiCalls' = [apiCalls EXCEPT ![p] =
                     [pc |-> "delaying", op |-> op, delayMs |-> delay, result |-> "none"]]
              /\ UNCHANGED <<lastRequestAge, sentAge>>
         ELSE /\ apiCalls' = [apiCalls EXCEPT ![p] =
                     [pc |-> "sent", op |-> op, delayMs |-> 0, result |-> "none"]]
              /\ lastRequestAge' = 0
              /\ sentAge' = 0
  /\ UNCHANGED nonApiVars

GetAircraftInArea(p) == RequestInterceptor(p, "getAircraftInArea")

GetAircraftByIcao(p) == RequestInterceptor(p, "getAircraftByIcao")

\* the interceptor's timer fired: lastRequestTime = Date.now(), and the
\* request leaves
DelayResume(p) ==
  /\ apiCalls[p].pc = "delaying"
  /\ apiCalls[p].delayMs = 0
  /\ apiCalls' = [apiCalls EXCEPT ![p].pc = "sent"]
  /\ lastRequestAge' = 0
  /\ sentAge' = 0
  /\ UNCHANGED nonApiVars

\* the response arrived, or the request failed and the method throws ApiError
ApiResponse(p, ok) ==
  /\ apiCalls[p].pc = "sent"
  /\ apiCalls' = [apiCalls EXCEPT ![p].pc = "done",
                                  ![p].result = IF ok THEN "states" ELSE "ApiError"]
  /\ UNCHANGED <<lastRequestAge, sentAge>>
  /\ UNCHANGED nonApiVars

\* the caller has taken the outcome of its call
ApiCallReturn(p) ==
  /\ apiCalls[p].pc = "done"
  /\ apiCalls' = [apiCalls EXCEPT ![p] = NoApiCall]
  /\ UNCHANGED <<lastRequestAge, sentAge>>
  /\ UNCHANGED nonApiVars

\* time passes; a timer that is due fires before more time passes
ApiTick ==
  /\ \A p \in Procs : apiCalls[p].pc = "delaying" => apiCalls[p].delayMs > 0
  /\ lastRequestAge' = Min(lastRequestAge + 1, MinRequestInterval)
  /\ sentAge' = Min(sentAge + 1, MinRequestInterval)
  /\ apiCalls' = [p \in Procs |->
                    IF apiCalls[p].pc = "delaying"
                    THEN [apiCalls[p] EXCEPT !.delayMs = @ - 1]
                    ELSE apiCalls[p]]
  /\ UNCHANGED nonApiVars

ApiNext ==
  \/ \E p \in Procs : GetAircraftInArea(p)
  \/ \E p \in Procs : GetAircraftByIcao(p)
  \/ \E p \in Procs : DelayResume(p)
  \/ \E p \in Procs, ok \in BOOLEAN : ApiResponse(p, ok)
  \/ \E p \in Procs : ApiCallReturn(p)
  \/ ApiTick

ApiSpec == Init /\ [][ApiNext]_vars

\* --- BackgroundTaskManager, with calls that overlap
\* A method is called.  Each begins with initialize() (isBackgroundTaskEnabled
\* only when initialized is false, which initialize tests again): when
\* initialized is false BackgroundFetch.configure is invoked and awaited,
\* otherwise the method goes on to its own native call.
BeginManagerCall(p, op) ==
  /\ mcalls[p].pc = "idle"
  /\ initialized \/ configureCount < MaxConfigures
  /\ IF initialized
     THEN /\ mcalls' = [mcalls EXCEPT ![p] =
                 [op |-> op, pc |-> IF op = "initialize" THEN "done" ELSE "native",
                  result |-> IF op = "initialize" THEN "resolved" ELSE "none"]]
          /\ UNCHANGED configureCount
     ELSE /\ mcalls' = [mcalls EXCEPT ![p] = [op |-> op, pc |-> "configure", result |-> "none"]]
          /\ configureCount' = configureCount + 1
  /\ UNCHANGED <<instances, tasks, initialized, scheduled, detectionActive, bcall,
                 lastRun, frun>>
  /\ UNCHANGED nonBackgroundVars

Initialize(p) == BeginManagerCall(p, "initialize")

ScheduleLocationUpdates(p) == BeginManagerCall(p, "scheduleLocationUpdates")

ScheduleFlightCheck(p) == BeginManagerCall(p, "scheduleFlightCheck")

IsBackgroundTaskEnabled(p) == BeginManagerCall(p, "isBackgroundTaskEnabled")

\* BackgroundFetch.configure settled: initialized = true, and the method
\* goes on; a rejection is thrown on by initialize, and the other methods
\* catch it and return false
ConfigureSettled(p, ok) ==
  /\ mcalls[p].pc = "configure"
  /\ initialized' = (initialized \/ ok)
  /\ mcalls' = [mcalls EXCEPT
       ![p].pc = IF ok /\ mcalls[p].op # "initialize" THEN "native" ELSE "done",
       ![p].result = IF mcalls[p].op = "initialize"
                     THEN (IF ok THEN "resolved" ELSE "rejected")
                     ELSE (IF ok THEN "none" ELSE "false")]
  /\ UNCHANGED <<instances, tasks, scheduled, detectionActive, bcall, lastRun,
                 configureCount, frun>>
  /\ UNCHANGED nonBackgroundVars

\* BackgroundFetch.scheduleTask or BackgroundFetch.status settled: true with
\* STATUS_AVAILABLE, false with another status or after a rejection
NativeSettled(p, ok) ==
  /\ mcalls[p].pc = "native"
  /\ scheduled' = IF ok /\ mcalls[p].op # "isBackgroundTaskEnabled"
                  THEN scheduled \cup {ScheduledTaskId(mcalls[p].op)}
                  ELSE scheduled
  /\ mcalls' = [mcalls EXCEPT ![p].pc = "done",
                              ![p].result = IF ok THEN "true" ELSE "false"]
  /\ UNCHANGED <<instances, tasks, initialized, detectionActive, bcall, lastRun,
                 configureCount, frun>>
  /\ UNCHANGED nonBackgroundVars

\* the caller has taken the outcome of its call
ManagerReturn(p) ==
  /\ mcalls[p].pc = "done"
  /\ mcalls' = [mcalls EXCEPT ![p] = NoManagerCall]
  /\ UNCHANGED <<instances, tasks, initialized, scheduled, detectionActive, bcall,
                 lastRun, configureCount, frun>>
  /\ UNCHANGED nonBackgroundVars

\* BackgroundFetch runs the task callback for a task id: the task is looked
\* up; a task that is found is awaited, without one a warning is logged
FetchEvent(taskId) ==
  /\ initialized
  /\ frun.pc = "idle"
  /\ frun' = [taskId |-> taskId,
              pc |-> IF tasks[taskId] # NoTask THEN "await" ELSE "finish",
              outcome |-> IF tasks[taskId] # NoTask THEN "none" ELSE "no task",
              finishedBy |-> {}]
  /\ UNCHANGED <<instances, tasks, initialized, scheduled, detectionActive, bcall,
                 lastRun, mcalls, configureCount>>
  /\ UNCHANGED nonBackgroundVars

\* the task settled
TaskSettled(ok) ==
  /\ frun.pc = "await"
  /\ frun' = [frun EXCEPT !.pc = AfterTask(ok),
                          !.outcome = IF ok THEN "completed" ELSE "threw"]
  /\ UNCHANGED <<instances, tasks, initialized, scheduled, detectionActive, bcall,
                 lastRun, mcalls, configureCount>>
  /\ UNCHANGED nonBackgroundVars

\* BackgroundFetch.finish(taskId), the last statement of the task callback
FinishTask ==
  /\ frun.pc = "finish"
  /\ frun' = [frun EXCEPT !.pc = "ended", !.finishedBy = @ \cup {"task callback"}]
  /\ UNCHANGED <<instances, tasks, initialized, scheduled, detectionActive, bcall,
                 lastRun, mcalls, configureCount>>
  /\ UNCHANGED nonBackgroundVars

\* the task took too long: BackgroundFetch runs the timeout callback, which
\* calls finish; the task goes on
TaskTimeout ==
  /\ frun.pc = "await"
  /\ "timeout callback" \notin frun.finishedBy
  /\ frun' = [frun EXCEPT !.finishedBy = @ \cup {"timeout callback"}]
  /\ UNCHANGED <<instances, tasks, initialized, scheduled, detectionActive, bcall,
                 lastRun, mcalls, configureCount>>
  /\ UNCHANGED nonBackgroundVars

\* the execution is over
CallbackReturn ==
  /\ frun.pc = "ended"
  /\ frun' = NoFetchRun
  /\ UNCHANGED <<instances, tasks, initialized, scheduled, detectionActive, bcall,
                 lastRun, mcalls, configureCount>>
  /\ UNCHANGED nonBackgroundVars

TaskManagerNext ==
  \/ CreateBackgroundService
  \/ CreateFlightDetectionManager
  \/ \E p \in Procs : Initialize(p)
  \/ \E p \in Procs : ScheduleLocationUpdates(p)
  \/ \E p \in Procs : ScheduleFlightCheck(p)
  \/ \E p \in Procs : IsBackgroundTaskEnabled(p)
  \/ \E p \in Procs, ok \in BOOLEAN : ConfigureSettled(p, ok)
  \/ \E p \in Procs, ok \in BOOLEAN : NativeSettled(p, ok)
  \/ \E p \in Procs : ManagerReturn(p)
  \/ \E taskId \in TaskIds : FetchEvent(taskId)
  \/ \E ok \in BOOLEAN : TaskSettled(ok)
  \/ FinishTask
  \/ TaskTimeout
  \/ CallbackReturn

TaskManagerSpec == Init /\ [][TaskManagerNext]_vars

\* --- FlightDetectionManager.performDetection
\* setNotificationManager(manager)
SetNotificationManager ==
  /\ ~notificationManagerSet
  /\ notificationManagerSet' = TRUE
  /\ UNCHANGED pdCall
  /\ UNCHANGED nonPerformVars

\* performDetection() is called: getLocation awaits getCurrentLocation
PerformDetection ==
  /\ pdCall.pc = "idle"
  /\ pdCall' = [pdCall EXCEPT !.pc = "getCurrentLocation"]
  /\ UNCHANGED notificationManagerSet
  /\ UNCHANGED nonPerformVars

\* getCurrentLocation resolved with a location or with null, or rejected:
\* getLocation then falls back to getLastKnownLocation
CurrentLocationSettled(ok, location) ==
  /\ pdCall.pc = "getCurrentLocation"
  /\ pdCall' = IF ok THEN AfterGetLocation(pdCall, location)
               ELSE [pdCall EXCEPT !.pc = "getLastKnownLocation"]
  /\ UNCHANGED notificationManagerSet
  /\ UNCHANGED nonPerformVars

\* getLastKnownLocation settled; its rejection is the rejection of
\* getLocation
LastKnownLocationSettled(ok, location) ==
  /\ pdCall.pc = "getLastKnownLocation"
  /\ pdCall' = IF ok THEN AfterGetLocation(pdCall, location)
               ELSE CatchAndReturnEmpty(pdCall, "getLocation")
  /\ UNCHANGED notificationManagerSet
  /\ UNCHANGED nonPerformVars

\* settingsRepository.getSettings settled
GetSettingsSettled(ok) ==
  /\ pdCall.pc = "getSettings"
  /\ pdCall' = IF ok THEN [pdCall EXCEPT !.pc = "detectOverheadFlights"]
               ELSE CatchAndReturnEmpty(pdCall, "getSettings")
  /\ UNCHANGED notificationManagerSet
  /\ UNCHANGED nonPerformVars

\* detectOverheadFlights settled: new flights are saved to the history,
\* without any the empty list is returned
DetectSettled(ok, flights) ==
  /\ pdCall.pc = "detectOverheadFlights"
  /\ pdCall' =
       IF ~ok THEN CatchAndReturnEmpty(pdCall, "detectOverheadFlights")
       ELSE IF Len(flights) > 0
            THEN [pdCall EXCEPT !.pc = "saveFlights", !.detectedFlights = flights]
            ELSE ReturnFlights(pdCall, flights)
  /\ UNCHANGED notificationManagerSet
  /\ UNCHANGED nonPerformVars

\* saveFlights settled: the flights are notified when there is a
\* notification manager, and returned
SaveSettled(ok) ==
  /\ pdCall.pc = "saveFlights"
  /\ pdCall' =
       IF ~ok THEN CatchAndReturnEmpty(pdCall, "saveFlights")
       ELSE IF notificationManagerSet
            THEN [pdCall EXCEPT !.pc = "notifyFlightsDetected"]
            ELSE ReturnFlights(pdCall, pdCall.detectedFlights)
  /\ UNCHANGED notificationManagerSet
  /\ UNCHANGED nonPerformVars

\* notifyFlightsDetected settled
NotifySettled(ok) ==
  /\ pdCall.pc = "notifyFlightsDetected"
  /\ pdCall' = IF ok THEN ReturnFlights(pdCall, pdCall.detectedFlights)
               ELSE CatchAndReturnEmpty(pdCall, "notifyFlightsDetected")
  /\ UNCHANGED notificationManagerSet
  /\ UNCHANGED nonPerformVars

\* the caller has taken the outcome
PerformReturn ==
  /\ pdCall.pc = "done"
  /\ pdCall' = NoPerformCall
  /\ UNCHANGED notificationManagerSet
  /\ UNCHANGED nonPerformVars

OptionalLocations == {{}} \cup {{l} : l \in Locations}

PerformNext ==
  \/ SetNotificationManager
  \/ PerformDetection
  \/ \E ok \in BOOLEAN, location \in OptionalLocations : CurrentLocationSettled(ok, location)
  \/ \E ok \in BOOLEAN, location \in OptionalLocations : LastKnownLocationSettled(ok, location)
  \/ \E ok \in BOOLEAN : GetSettingsSettled(ok)
  \/ \E ok \in BOOLEAN, flights \in Polls : DetectSettled(ok, flights)
  \/ \E ok \in BOOLEAN : SaveSettled(ok)
  \/ \E ok \in BOOLEAN : NotifySettled(ok)
  \/ PerformReturn

PerformSpec == Init /\ [][PerformNext]_vars

\* --- AircraftImageService.clearImageCache, await by await
\* clearImageCache() is called: memoryCache.clear(), then RNFS.unlink of the
\* cache directory is awaited
BeginClearImageCache ==
  /\ clearCall.pc = "idle"
  /\ memoryCache' = [t \in ImageTypes |-> {}]
  /\ cacheAge' = [t \in ImageTypes |-> 0]
  /\ clearCall' = [pc |-> "unlink", deleted |-> {}]
  /\ UNCHANGED <<files, ipc, itype, ipart, iidx, isrc, ipath, ihit, ifs, ifailed,
                 ichecked, isPrefetching, prefetchCalls>>
  /\ UNCHANGED nonImageVars

\* RNFS.unlink settled: the files of the directory are gone, or the failure
\* is ignored; initializeCache is awaited
UnlinkSettled(unlinkOk) ==
  /\ clearCall.pc = "unlink"
  /\ files' = IF unlinkOk THEN {} ELSE files
  /\ clearCall' = [pc |-> "initializeCache", deleted |-> IF unlinkOk THEN files ELSE {}]
  /\ UNCHANGED <<memoryCache, cacheAge, ipc, itype, ipart, iidx, isrc, ipath, ihit,
                 ifs, ifailed, ichecked, isPrefetching, prefetchCalls>>
  /\ UNCHANGED nonImageVars

\* initializeCache settled (it catches its own errors): clearImageCache
\* completes
InitializeCacheSettled ==
  /\ clearCall.pc = "initializeCache"
  /\ clearCall' = [clearCall EXCEPT !.pc = "done"]
  /\ UNCHANGED <<memoryCache, files, cacheAge, ipc, itype, ipart, iidx, isrc, ipath,
                 ihit, ifs, ifailed, ichecked, isPrefetching, prefetchCalls>>
  /\ UNCHANGED nonImageVars

\* the caller has taken the outcome
ClearReturn ==
  /\ clearCall.pc = "done"
  /\ clearCall' = NoClearCall
  /\ UNCHANGED <<memoryCache, files, cacheAge, ipc, itype, ipart, iidx, isrc, ipath,
                 ihit, ifs, ifailed, ichecked, isPrefetching, prefetchCalls>>
  /\ UNCHANGED nonImageVars

\* One caller looks images up while the cache is cleared.
ClearNext ==
  \/ \E aircraftType \in ImageTypes : GetImageForAircraftType("bg", aircraftType)
  \/ \E ok \in BOOLEAN : ExistsResume("bg", ok)
  \/ \E ok \in BOOLEAN : DownloadResume("bg", ok)
  \/ ImageReturn("bg")
  \/ BeginClearImageCache
  \/ \E unlinkOk \in BOOLEAN : UnlinkSettled(unlinkOk)
  \/ InitializeCacheSettled
  \/ ClearReturn

ClearSpec == Init /\ [][ClearNext]_vars

\* --- AircraftImageService.prefetchImagesForTypes
\* prefetchImagesForTypes(aircraftTypes) is called: nothing is done while
\* another call prefetches or for an empty list; otherwise the flag is set
\* and the images of the types are fetched together.  DevToast.show throwing
\* takes the call through the catch block and the finally block at once.
PrefetchImagesForTypes(p, aircraftTypes, toastOk) ==
  /\ prefetchCalls[p].pc = "idle"
  /\ IF isPrefetching \/ aircraftTypes = {}
     THEN /\ prefetchCalls' = [prefetchCalls EXCEPT ![p] =
                 [pc |-> "done", pending |-> {}, failed |-> {}, outcome |-> "skipped"]]
          /\ UNCHANGED isPrefetching
     ELSE IF toastOk
     THEN /\ prefetchCalls' = [prefetchCalls EXCEPT ![p] =
                 [pc |-> "running", pending |-> aircraftTypes, failed |-> {},
                  outcome |-> "none"]]
          /\ isPrefetching' = TRUE
     ELSE /\ prefetchCalls' = [prefetchCalls EXCEPT ![p] =
                 [pc |-> "done", pending |-> {}, failed |-> {}, outcome |-> "error"]]
          /\ isPrefetching' = isPrefetchingAfterFinally(TRUE)
  /\ UNCHANGED <<memoryCache, files, cacheAge, ipc, itype, ipart, iidx, isrc, ipath,
                 ihit, ifs, ifailed, ichecked, clearCall>>
  /\ UNCHANGED nonImageVars

\* getImageForAircraftType of one of the types settled; a rejection is caught
\* and logged by the callback of that type
PrefetchOneSettled(p, aircraftType, ok) ==
  /\ prefetchCalls[p].pc = "running"
  /\ aircraftType \in prefetchCalls[p].pending
  /\ prefetchCalls' = [prefetchCalls EXCEPT
       ![p].pending = @ \ {aircraftType},
       ![p].failed = IF ok THEN @ ELSE @ \cup {aircraftType}]
  /\ UNCHANGED <<memoryCache, files, cacheAge, ipc, itype, ipart, iidx, isrc, ipath,
                 ihit, ifs, ifailed, ichecked, clearCall, isPrefetching>>
  /\ UNCHANGED nonImageVars

\* Promise.all resolved: the call ends normally, or in the catch block when
\* DevToast.show throws, and the finally block resets the flag
PrefetchAllSettled(p, toastOk) ==
  /\ prefetchCalls[p].pc = "running"
  /\ prefetchCalls[p].pending = {}
  /\ prefetchCalls' = [prefetchCalls EXCEPT ![p].pc = "done",
                          ![p].outcome = IF toastOk THEN "complete" ELSE "error"]
  /\ isPrefetching' = isPrefetchingAfterFinally(~toastOk)
  /\ UNCHANGED <<memoryCache, files, cacheAge, ipc, itype, ipart, iidx, isrc, ipath,
                 ihit, ifs, ifailed, ichecked, clearCall>>
  /\ UNCHANGED nonImageVars

\* the caller has taken the outcome
PrefetchReturn(p) ==
  /\ prefetchCalls[p].pc = "done"
  /\ prefetchCalls' = [prefetchCalls EXCEPT ![p] = NoPrefetchCall]
  /\ UNCHANGED <<memoryCache, files, cacheAge, ipc, itype, ipart, iidx, isrc, ipath,
                 ihit, ifs, ifailed, ichecked, clearCall, isPrefetching>>
  /\ UNCHANGED nonImageVars

PrefetchNext ==
  \/ \E p \in Procs, aircraftTypes \in SUBSET ImageTypes, toastOk \in BOOLEAN :
       PrefetchImagesForTypes(p, aircraftTypes, toastOk)
  \/ \E p \in Procs, aircraftType \in ImageTypes, ok \in BOOLEAN :
       PrefetchOneSettled(p, aircraftType, ok)
  \/ \E p \in Procs, toastOk \in BOOLEAN : PrefetchAllSettled(p, toastOk)
  \/ \E p \in Procs : PrefetchReturn(p)

PrefetchSpec == Init /\ [][PrefetchNext]_vars

\* handleDeepLink(createDeepLink(config)); nothing is awaited before
\* navigateToScreen has returned
HandleCreatedDeepLink(type, params, throws) ==
  /\ navRequest' = [op |-> "handleDeepLink", type |-> type, params |-> params,
                    registered |-> navigateFunction # Null, throws |-> throws]
  /\ navOutcome' = handleDeepLink(navigateFunction,
                                  createDeepLink([type |-> type, params |-> params]),
                                  throws)
  /\ UNCHANGED navigateFunction
  /\ UNCHANGED nonNavVars

DeepLinkNext ==
  \/ RegisterNavigationFunction
  \/ \E type \in DeepLinkTypes, params \in OptionalEntryLists, throws \in BOOLEAN :
       HandleCreatedDeepLink(type, params, throws)

DeepLinkSpec == Init /\ [][DeepLinkNext]_vars

\* The background task keeps polling, every await settles, timers fire and
\* time passes; what a poll returns and whether a save or a post succeeds is
\* left to the environment.
FairDetectionSpec ==
  /\ DetectionSpec
  /\ WF_vars(StartDetection("bg"))
  /\ WF_vars((\E poll \in Polls : DetectReturn("bg", poll)) \/ DetectFail("bg"))
  /\ WF_vars(NotifyFlightsDetected("bg") \/ SaveFail("bg"))
  /\ WF_vars(\E ok \in BOOLEAN : ShowFlightNotification("bg", ok))
  /\ WF_vars(AfterPost("bg"))
  /\ WF_vars(ResumeNotify("bg"))
  /\ WF_vars(Return("bg"))
  /\ WF_vars(\E t \in timers : TimerFire(t))
  /\ WF_vars(Tick)

\* ------------------------------------------------------------ properties

\* C1: a successful detectOverheadFlights call returns exactly the flights of
\* the current poll result whose id does not occur in the result of the
\* immediately preceding successful poll (all of them on the first call).
C1_NewFlightsAreSetDifference ==
  [][\A p \in Procs :
       (pc[p] = "detecting" /\ pc'[p] # "detecting")
         => newDetections'[p] =
              SelectSeq(lastDetectedFlights', LAMBDA f : f.id \notin prevPollIds)]_vars

\* a detection returned some, but not all, of a poll's flights as new
C1_Witness ==
  /\ pc["bg"] = "saving"
  /\ Len(newDetections["bg"]) > 0
  /\ Len(newDetections["bg"]) < Len(lastDetectedFlights)

AmongLowest(flights, k) ==
  Cardinality({j \in 1..Len(flights) :
                 \/ flights[j].altitude < flights[k].altitude
                 \/ flights[j].altitude = flights[k].altitude /\ j < k})
    < MaxNotificationsPerBatch

TriedAs(p, f, outcome) ==
  \E i \in 1..Len(outcomes[p]) : flightsToNotify[p][i] = f /\ outcomes[p][i] = outcome

C3_NoRepeatUntilEvicted ==
  \A i \in FlightIds : live[i] <= 1

\* C4: a call that posts began at least 30 s after the latest notification
\* of any earlier call was sent, and no other call posted while it was in
\* progress; a call begun inside the 30 s window posts nothing and returns
\* false / an empty list.
C4_ThrottleBetweenCalls ==
  \A p \in Procs :
    /\ postedBy[p] # {} => startAge[p] >= ThrottleInterval /\ ~overlapPost[p]
    /\ (gate[p] # "none" /\ startAge[p] < ThrottleInterval) =>
         /\ postedBy[p] = {}
         /\ pc[p] = "done" => Len(NotifiedFlights(p)) = 0

\* C5: an id put into the already-notified set by a posted notification stays
\* there for the full duration computed for that posting unless it is
\* cancelled, and its removal is pending while it is in the set.  (hold is
\* the time left of the duration of the latest posting of an id.)
C5_HeldForFullDuration ==
  \A i \in FlightIds :
    /\ hold[i] > 0 => i \in sentNotifications
    /\ i \in sentNotifications => \E t \in timers : t.id = i

\* what a getCachedData(k) issued now would return
GetWouldReturn(k) ==
  IF store[k] = NoEntry \/ IsExpired(TheEntry(store[k])) THEN Null
  ELSE TheEntry(store[k]).data

C7_RegistryMatchesStorage ==
  (\A p \in Procs : cpc[p] = "idle") =>
    /\ SeqToSet(registry) = {k \in CacheKeys : store[k] # NoEntry}
    /\ Len(registry) = Cardinality({k \in CacheKeys : store[k] # NoEntry})

\* C8: after clearCache completes, getCachedData returns null for every key
\* written with cacheData before the clearCache call.  (snapshot holds the
\* keys written before the call and not written again since.)
C8_ClearCacheClearsAll ==
  \A p \in Procs :
    (cop[p] = "clearCache" /\ cpc[p] = "done") =>
      \A k \in snapshot[p] : GetWouldReturn(k) = Null

C10_NoDuplicateKeys ==
  \A i, j \in 1..Len(registry) : i # j => registry[i] # registry[j]

\* cacheData has stored a new entry for a key that the registry it read
\* already lists, next to a second key
C10_Witness ==
  \E p \in Procs :
    /\ cop[p] = "cacheData" /\ cpc[p] = "add_write"
    /\ includes(ckeys[p], ckey[p])
    /\ Len(ckeys[p]) = 2
    /\ registry = ckeys[p]

\* what getCachedData returns for what getItem gave it
ResultOfGet(slot) ==
  IF slot = NoEntry \/ IsExpired(TheEntry(slot)) THEN Null
  ELSE TheEntry(slot).data

\* C11: isCacheValid(key) returns true if and only if an entry for the key
\* exists and is not expired, that is, exactly when a getCachedData(key)
\* issued at the same instant (reading the same entry at the same age) would
\* return the cached data rather than null.
C11_ValidIffGetReturnsData ==
  [][\A p \in Procs :
       (cpc[p] = "valid_check" /\ cpc'[p] = "done") =>
         /\ cresult'[p] \in {"true", "false"}
         /\ (cresult'[p] = "true") = (ResultOfGet(seen[p]) # Null)
         /\ \A q \in Procs :
              (cpc[q] = "get_check" /\ ckey[q] = ckey[p] /\ seen[q] = seen[p])
                => (cresult'[p] = "true") = (ResultOfGet(centry[q]) # Null)]_vars

\* isCacheValid answered true for an entry exactly expiryMs old
C11_Witness ==
  \E p \in Procs :
    /\ cop[p] = "isCacheValid" /\ cpc[p] = "done"
    /\ cresult[p] = "true"
    /\ store[ckey[p]] # NoEntry
    /\ TheEntry(store[ckey[p]]).age = TheEntry(store[ckey[p]]).expiryMs

\* C12: every flight returned by getNearbyAircraft(latitude, longitude,
\* radiusKm) has a reported position whose great-circle distance from
\* (latitude, longitude) is at most radiusKm, whether the result comes from
\* the API or from the cache.
C12_ResultWithinRadius ==
  \A p \in Procs :
    rpc[p] = "done" =>
      \A f \in rresult[p] : calculateDistance(rlat[p], f) <= DetectionRadius

C14_ReturnsWhatWasPosted ==
  \A p \in Procs :
    /\ (pc[p] = "done" /\ kind[p] = "cycle") =>
         Ids(NotifiedFlights(p)) = postedBy[p]
    /\ (pc[p] = "done" /\ kind[p] = "single") =>
         (NotifyFlightDetectedResult(p) <=> postedBy[p] # {})

\* C15: when the repository call fails, detectOverheadFlights rejects with a
\* FlightDetectionError ('Failed to detect overhead flights') and leaves the
\* last-detected list unchanged.
C15_FailureKeepsLastDetected ==
  [][\A p \in Procs :
       /\ DetectFail(p) =>
            /\ detectError'[p] = FlightDetectionError
            /\ lastDetectedFlights' = lastDetectedFlights
       /\ (detectError[p] = NoError /\ detectError'[p] = FlightDetectionError) =>
            /\ pc[p] = "detecting"
            /\ lastDetectedFlights' = lastDetectedFlights]_vars

\* a detection failed after an earlier one had found an aircraft, which is
\* still the last-detected list
C15_Witness ==
  \E p \in Procs :
    /\ pc[p] = "done" /\ detectError[p] = FlightDetectionError
    /\ Len(lastDetectedFlights) > 0

\* C16: updateDetectionRadius changes only detectionRadiusKm and
\* updateLastKnownLocation changes only lastKnownLocation; after both have
\* completed, in any interleaving, the stored settings hold the radius of the
\* one and the location of the other.
C16_BothUpdatesKept ==
  (\A p \in Procs : spc[p] = "idle") =>
    \A s \in settings :
      /\ \A r \in lastRadius : s.detectionRadiusKm = r
      /\ \A l \in lastLocation : s.lastKnownLocation = {l}

C18_AtMostOneWatch ==
  Cardinality(watches) <= 1

ExpectedImageIds(aircraftType) ==
  LET info == TheEntry(lookupAircraftTypeInfo(aircraftType))
  IN  info.imageIds \o <<getDefaultType(info.category).imageIds[1]>>

C21_CachedResolutionExpires ==
  [][\A p \in Procs :
       (ipc[p] = "idle" /\ ipc'[p] = "done" /\ ihit'[p]) =>
         cacheAge[itype'[p]] <= MaxExpiry]_vars

\* C22: handleNotificationAction navigates to the flight-details screen with
\* the notification's flightId for VIEW_DETAILS, to the flight-history
\* screen for SHOW_HISTORY, navigates nowhere and returns true for DISMISS,
\* and returns false without navigating when the flight id is missing or the
\* action is unknown.  (To navigate is to hand navigateToScreen the
\* configuration; with a navigation function registered that does not throw,
\* that function is called once with the screen and the parameters and the
\* result is true.)
C22_ActionNavigates ==
  navRequest.op = "handleNotificationAction" =>
    LET id == FlightIdOf(navRequest.params)
        idParams == {{<<"flightId", f>> : f \in id}}
        works == navRequest.registered /\ ~navRequest.throws
    IN  IF FlightIdMissing(navRequest.params) \/ navRequest.type = UnknownType
        THEN navOutcome = NoNavigation
        ELSE IF navRequest.type = "dismiss"
        THEN navOutcome = [NoNavigation EXCEPT !.result = TRUE]
        ELSE IF navRequest.type = "view_details"
        THEN /\ navOutcome.configs = <<[type |-> "flight-details", params |-> idParams]>>
             /\ navOutcome.result = works
             /\ navRequest.registered =>
                  navOutcome.calls = <<[screenName |-> "FlightDetailsScreen",
                                        params |-> idParams]>>
        ELSE /\ navRequest.type = "show_history"
             /\ navOutcome.configs = <<[type |-> "flight-history", params |-> {{}}]>>
             /\ navOutcome.result = works
             /\ navRequest.registered =>
                  navOutcome.calls = <<[screenName |-> "FlightHistoryScreen",
                                        params |-> {{}}]>>

\* the history button of a notification of flight123 opened the history
C22_Witness ==
  /\ navRequest.op = "handleNotificationAction"
  /\ navRequest.type = "show_history"
  /\ navRequest.params = {{<<"flightId", "flight123">>}}
  /\ navOutcome.result
  /\ Len(navOutcome.calls) = 1

\* C24: with a navigation function registered, navigateToScreen calls it
\* once with the screen name of the link type and the link's parameters,
\* passing an empty parameter object when the configuration carries no
\* parameters, and returns true; with no navigation function registered it
\* navigates nowhere and returns false.
C24_NavigateToScreen ==
  navRequest.op = "navigateToScreen" =>
    IF ~navRequest.registered
    THEN navOutcome.calls = <<>> /\ ~navOutcome.result
    ELSE (navRequest.type \in DeepLinkTypes /\ ~navRequest.throws) =>
           /\ navOutcome.calls =
                <<[screenName |-> ScreenName(navRequest.type),
                   params |-> IF navRequest.params = {} THEN {{}}
                              ELSE navRequest.params]>>
           /\ navOutcome.result

\* C23: on Android, requestBackgroundLocationPermission never issues the
\* background-location permission request unless the foreground location
\* permission is granted; without it the call returns false.  (The request
\* is issued only in the step in which the check of ACCESS_FINE_LOCATION
\* settles with the permission granted in the system; a call whose check
\* gave anything else requests nothing and returns false.)
C23_BackgroundNeedsForeground ==
  /\ [](permCall.os = "android" =>
          /\ (\E i \in 1..Len(permCall.requested) :
                permCall.requested[i] = AccessBackgroundLocation) =>
               permCall.checked = "granted"
          /\ (permCall.pc = "done" /\ permCall.checked # "granted") =>
               (permCall.requested = <<>> /\ ~permCall.result))
  /\ [][(permCall'.os = "android" /\ permCall'.requested # permCall.requested) =>
          /\ permCall.pc = "check"
          /\ permStatus[AccessFineLocation] = "granted"
          /\ permCall'.requested = <<AccessBackgroundLocation>>]_vars

\* on Android the check found the foreground permission denied and the call
\* returned false
C23_Witness ==
  /\ permCall.os = "android"
  /\ permCall.pc = "done"
  /\ permCall.checked = "denied"
  /\ ~permCall.result

\* C25: once FlightDetectionManager has been created, every execution of the
\* background task with id com.flightoverhead.flightcheck runs
\* FlightDetectionManager.performDetection, regardless of the order in which
\* BackgroundService and FlightDetectionManager are constructed and started.
C25_FlightCheckRunsDetection ==
  lastRun.managerCreated => lastRun.task = DetectionTask

\* C26: isDetectionActive() returns true exactly while the background flight
\* check is scheduled: it is true after a successful
\* startBackgroundDetection and false once a following
\* stopBackgroundDetection has completed.
C26_ActiveWhileScheduled ==
  /\ (bcall.pc = "done" /\ bcall.op = "startBackgroundDetection" /\ bcall.result) =>
       (detectionActive /\ FlightCheckTaskId \in scheduled)
  /\ (bcall.pc = "done" /\ bcall.op = "stopBackgroundDetection") =>
       (~detectionActive /\ FlightCheckTaskId \notin scheduled)

\* C27: flights saved to history by one performDetection call are still
\* returned by FlightRepository.getAllFlights after later performDetection
\* calls have saved further flights (the history accumulates).
C27_HistoryAccumulates ==
  (hcall.op = "getAllFlights" /\ hcall.pc = "done") =>
    savedFlights \subseteq Ids(hcall.flights)

\* C28: getCachedData never removes an unexpired entry: an entry written by
\* cacheData for a key while a getCachedData for the same key is in progress
\* remains retrievable, and registered, until its own expiry.  (The entry a
\* getCachedData call deletes from storage is expired, and the call takes
\* the key off the registry only when storage holds no unexpired entry of
\* the key.)
C28_GetKeepsUnexpiredEntry ==
  [][\A p \in Procs :
       cop[p] = "getCachedData" =>
         LET k == ckey[p]
             unexpired == store[k] # NoEntry /\ ~IsExpired(TheEntry(store[k]))
         IN  /\ (cpc[p] = "get_check" /\ cpc'[p] = "remove_read") => ~unexpired
             /\ (cpc[p] = "remove_write" /\ cpc'[p] = "done" /\ unexpired) =>
                  (includes(registry, k) => includes(registry', k))]_vars

\* C29: a single notifyFlightsDetected call posts at most 3 notifications,
\* and the flights it notifies are the ones with the lowest altitudes among
\* the flights passed in.  (The call posts only for flights of its list that
\* are among the maxNotificationsPerBatch lowest of the list, and for at most
\* that many; a call that is not refused sets out to notify as many as the
\* list allows.)
C29_BatchIsThreeLowest ==
  \A p \in Procs :
    (kind[p] = "cycle" /\ pc[p] # "idle") =>
      LET flights == newDetections[p]
      IN  /\ Cardinality(postedBy[p]) <= MaxNotificationsPerBatch
          /\ \A id \in postedBy[p] :
               \E k \in 1..Len(flights) :
                 flights[k].id = id /\ AmongLowest(flights, k)
          /\ gate[p] = "open" =>
               Len(flightsToNotify[p]) = Min(Len(flights), MaxNotificationsPerBatch)

\* a call given more flights than a batch notifies has posted for the three
\* lowest and is done
C29_Witness ==
  /\ pc["bg"] = "done" /\ kind["bg"] = "cycle"
  /\ Len(newDetections["bg"]) > MaxNotificationsPerBatch
  /\ Cardinality(postedBy["bg"]) = MaxNotificationsPerBatch

C31_RequestsSpacedApart ==
  [][\A p \in Procs :
       (apiCalls[p].pc # "sent" /\ apiCalls'[p].pc = "sent") =>
         sentAge >= MinRequestInterval]_vars

C33_ConfigureAtMostOnce == configureCount <= 1

\* C34: performDetection never rejects: when no location is available, or
\* when reading the settings, detecting flights, saving the history or
\* notifying fails, it resolves to an empty list.
C34_PerformDetectionNeverRejects ==
  pdCall.pc = "done" =>
    /\ pdCall.settled = "resolved"
    /\ (pdCall.failed # "none" \/ pdCall.location = {}) => pdCall.value = <<>>
    /\ (pdCall.failed = "none" /\ pdCall.location # {}) =>
          pdCall.value = pdCall.detectedFlights

\* flights were detected and saved, notifying failed, and the call is over
C34_Witness ==
  /\ pdCall.pc = "done"
  /\ pdCall.failed = "notifyFlightsDetected"
  /\ Len(pdCall.detectedFlights) > 0
  /\ pdCall.settled = "resolved"

\* C35: after clearImageCache has completed, the image memory cache holds no
\* path to a file that clearImageCache deleted, also when an image lookup was
\* in progress during the clear.
C35_NoPathToDeletedFile ==
  clearCall.pc = "done" =>
    \A t \in ImageTypes :
      \A imageId \in memoryCache[t] :
        imageId \in clearCall.deleted => imageId \in files

\* C36: image prefetching can never become permanently disabled: whenever no
\* prefetchImagesForTypes call is running, isPrefetching is false, whether
\* the last call ended normally or with an error.
C36_PrefetchNeverStuck ==
  (\A p \in Procs : prefetchCalls[p].pc # "running") => ~isPrefetching

\* a prefetch of some types has ended in the catch block and no call is
\* running
C36_Witness ==
  /\ prefetchCalls["bg"].pc = "done"
  /\ prefetchCalls["bg"].outcome = "error"
  /\ prefetchCalls["ui"].pc # "running"
  /\ ~isPrefetching

\* C37: for every deep-link type and parameter map,
\* handleDeepLink(createDeepLink(config)) navigates to the screen of
\* config.type with parameters equal to config.params (a configuration
\* without parameters counting as one with an empty parameter map).
C37_DeepLinkRoundTrip ==
  (navRequest.op = "handleDeepLink" /\ navRequest.registered /\ ~navRequest.throws) =>
    /\ navOutcome.result
    /\ navOutcome.calls =
         <<[screenName |-> ScreenName(navRequest.type),
            params |-> {IF navRequest.params = {} THEN {}
                        ELSE ObjectOf(TheEntry(navRequest.params))}]>>

====
